---- MODULE Spec2Model ----
(***************************************************************************)
(* Model of the seatAgent MCP host (src/app.py), its telemetry handler     *)
(* (src/utils/metadata_handler.py), the command normalizer                 *)
(* (src/utils/preprocess_llm_reponse.py) and the tools of the motor MCP    *)
(* server (src/mcp/mcp_server.py).                                         *)
(*                                                                         *)
(* A Python value is a record with one field, named after its type; a     *)
(* dict is a TLA+ function from key names to values.  A str that carries   *)
(* JSON text is a sequence of lexical tokens (field text); every other     *)
(* str is an atomic word.                                                  *)
(* Dict iteration order is the order of KeyOrder: the sample inputs are    *)
(* literals whose insertion order is that order.                           *)
(***************************************************************************)
EXTENDS Integers, Sequences, FiniteSets, TLC

VARIABLES
  DEFAULT_RESPONSE_STRUCTURE, \* preprocess_llm_reponse.py module global
  normArg,                    \* argument of the last process_llm_response call
  normRet,                    \* value it returned
  normOutcome,                \* "none" | "returned" | "raised"
  normExc,                    \* exception caught inside the call, or "none"
  normCalls                   \* number of calls made so far

VARIABLES
  toolCall              \* the last tool call the motor MCP server executed

VARIABLES
  now,                  \* time.time()
  ticks,                \* number of times the clock has moved
  fileExists,           \* os.path.exists(metadata_path)
  fileMtime,            \* os.path.getmtime(metadata_path)
  fileContent,          \* what the telemetry file holds
  fileWrites,           \* number of external changes of the file so far
  last_metadata,        \* MetadataHandler.last_metadata
  last_modified_time,   \* MetadataHandler.last_modified_time
  cached_metadata,      \* DynamicMCPHost.cached_metadata
  last_metadata_update, \* DynamicMCPHost.last_metadata_update
  available_tools,      \* DynamicMCPHost.available_tools
  catalogObj,           \* identity of the dict object available_tools is bound to
  backend,              \* how each MCP server answers at the moment
  backendChanges,       \* number of changes of backend so far
  pc,                   \* where each thread is
  lv,                   \* each thread's local variables
  resp,                 \* the last response each thread produced
  calls,                \* number of requests each worker has handled or started
  reloadAttempts,       \* load_latest_metadata calls made by get_current_metadata since the clock last moved
  reloadFailures,       \* those that raised or returned nothing
  posts                 \* the POST requests sent to MCP servers, in order

normVars == <<DEFAULT_RESPONSE_STRUCTURE, normArg, normRet, normOutcome, normExc, normCalls>>

fileVars == <<fileExists, fileMtime, fileContent, fileWrites>>

cacheVars == <<last_metadata, last_modified_time, cached_metadata, last_metadata_update>>

catalogVars == <<available_tools, catalogObj>>

backendVars == <<backend, backendChanges>>

threadVars == <<pc, lv, resp, calls>>

ghostVars == <<reloadAttempts, reloadFailures>>

hostVars == <<now, ticks, fileVars, cacheVars, catalogVars, backendVars, threadVars, ghostVars, posts>>

vars == <<normVars, toolCall, hostVars>>

-----------------------------------------------------------------------------
(* Bounds *)

MaxCalls == 3

Epoch == 10          \* time.time() when the process starts
MaxTicks == 2        \* times the clock moves
MaxFileWrites == 1   \* external changes of the telemetry file
MaxUpdates == 2      \* snapshots the vehicle writes to the telemetry file
MaxRequests == 1     \* requests each worker thread handles
MaxBackendChanges == 1 \* changes of how the MCP servers answer

-----------------------------------------------------------------------------
(* Python values *)

I(n) == [int |-> n]
S(s) == [str |-> s]
B(b) == [bool |-> b]
D(f) == [dict |-> f]
L(q) == [list |-> q]
T(q) == [text |-> q]
None == [none |-> TRUE]

Is(x, ty) == DOMAIN x = {ty}
EmptyFn == [k \in {} |-> None]

Ok(x) == [exc |-> "none", val |-> x]
Raise(e) == [exc |-> e]

\* bool(x)
Truthy(x) ==
  CASE Is(x, "none") -> FALSE
    [] Is(x, "bool") -> x.bool
    [] Is(x, "int")  -> x.int # 0
    [] Is(x, "str")  -> x.str # ""
    [] Is(x, "text") -> x.text # << >>
    [] Is(x, "list") -> x.list # << >>
    [] Is(x, "dict") -> DOMAIN x.dict # {}

\* isinstance(x, bool)
IsBool(x) == Is(x, "bool")

\* isinstance(x, str)
IsStr(x) == Is(x, "str") \/ Is(x, "text")

\* isinstance(x, dict)
IsDict(x) == Is(x, "dict")

\* k in x
Contains(k, x) ==
  CASE Is(x, "dict") -> Ok(k \in DOMAIN x.dict)
    [] Is(x, "str")  -> Ok(k = x.str)
    [] Is(x, "text") -> Ok(FALSE)
    [] Is(x, "list") -> Ok(\E i \in 1..Len(x.list) : x.list[i] = S(k))
    [] OTHER -> Raise("TypeError")

\* x[k]
GetItem(x, k) ==
  IF IsDict(x)
    THEN IF k \in DOMAIN x.dict THEN Ok(x.dict[k]) ELSE Raise("KeyError")
    ELSE Raise("TypeError")

\* x.get(k, dflt)
Get(x, k, dflt) ==
  IF IsDict(x)
    THEN Ok(IF k \in DOMAIN x.dict THEN x.dict[k] ELSE dflt)
    ELSE Raise("AttributeError")

\* the dict f after f.update(u)
DictUpdate(f, u) ==
  CASE IsDict(u) ->
         Ok([k \in DOMAIN f \cup DOMAIN u.dict |-> IF k \in DOMAIN u.dict THEN u.dict[k] ELSE f[k]])
    [] IsStr(u) \/ Is(u, "list") ->
         IF Truthy(u) THEN Raise("ValueError") ELSE Ok(f)
    [] OTHER -> Raise("TypeError")

\* iteration order of the keys of a dict
KeyOrder ==
  << "seatCommand", "answer", "vibe", "pneumatic", "thermal", "motors", "seatbelt",
     "Track", "Backrest", "Height", "Tilt", "UBA", "Headrest", "CLA", "Lift",
     "action", "navigationTime", "mainVolume", "vibeVolume", "audioVolume",
     "cushionVolume", "backrestVolume", "adjustement", "massage", "lumbar",
     "neckrest", "direction", "percentage", "type", "is_active", "experience",
     "intensity", "heatingLevel", "ventilationLevel", "ventilation", "fanSpeed",
     "response", "tool", "server", "args", "reasoning", "foo" >>

Keys(f) == SelectSeq(KeyOrder, LAMBDA k : k \in DOMAIN f)

-----------------------------------------------------------------------------
(* JSON text: a str is its sequence of lexical tokens *)

LB == [tk |-> "lb"]                 \* {
RB == [tk |-> "rb"]                 \* }
LS == [tk |-> "ls"]                 \* [
RS == [tk |-> "rs"]                 \* ]
W  == [tk |-> "w"]                  \* a run of prose without braces
WS == [tk |-> "ws"]                 \* a run of whitespace
KEY(s) == [tk |-> "key", s |-> s]   \* "s":
ATOM(x) == [tk |-> "atom", x |-> x] \* a number, string, true, false or null

\* str.find(ch): 0-based index of the first token ch, -1 when absent
Find(toks, ch) ==
  IF \E i \in 1..Len(toks) : toks[i] = ch
    THEN (CHOOSE i \in 1..Len(toks) : toks[i] = ch /\ \A j \in 1..(i-1) : toks[j] # ch) - 1
    ELSE -1

\* str.rfind(ch): 0-based index of the last token ch, -1 when absent
RFind(toks, ch) ==
  IF \E i \in 1..Len(toks) : toks[i] = ch
    THEN (CHOOSE i \in 1..Len(toks) : toks[i] = ch /\ \A j \in (i+1)..Len(toks) : toks[j] # ch) - 1
    ELSE -1

\* s[a:b] for 0 <= a
Slice(toks, a, b) == SubSeq(toks, a + 1, IF b > Len(toks) THEN Len(toks) ELSE b)

RECURSIVE StripLeft(_), StripRight(_)
StripLeft(toks) ==
  IF toks # << >> /\ Head(toks) = WS THEN StripLeft(Tail(toks)) ELSE toks

StripRight(toks) ==
  IF toks # << >> /\ toks[Len(toks)] = WS
    THEN StripRight(SubSeq(toks, 1, Len(toks) - 1)) ELSE toks

\* str.strip()
Strip(toks) == StripRight(StripLeft(toks))

NoParse == [ok |-> FALSE]

\* the JSON value that starts at token i: [ok, val, next]
RECURSIVE ParseValue(_, _), ParseMembers(_, _, _), ParseElems(_, _, _)
ParseValue(toks, i) ==
  IF i > Len(toks) THEN NoParse
  ELSE CASE toks[i].tk = "atom" -> [ok |-> TRUE, val |-> toks[i].x, next |-> i + 1]
         [] toks[i].tk = "lb" -> ParseMembers(toks, i + 1, EmptyFn)
         [] toks[i].tk = "ls" -> ParseElems(toks, i + 1, << >>)
         [] OTHER -> NoParse

ParseMembers(toks, i, acc) ==
  IF i > Len(toks) THEN NoParse
  ELSE CASE toks[i].tk = "rb" -> [ok |-> TRUE, val |-> D(acc), next |-> i + 1]
         [] toks[i].tk = "key" ->
              LET r == ParseValue(toks, i + 1)
                  k == toks[i].s
              IN IF r.ok
                   THEN ParseMembers(toks, r.next,
                          [x \in DOMAIN acc \cup {k} |-> IF x = k THEN r.val ELSE acc[x]])
                   ELSE NoParse
         [] OTHER -> NoParse

ParseElems(toks, i, acc) ==
  IF i > Len(toks) THEN NoParse
  ELSE IF toks[i].tk = "rs" THEN [ok |-> TRUE, val |-> L(acc), next |-> i + 1]
  ELSE LET r == ParseValue(toks, i)
       IN IF r.ok THEN ParseElems(toks, r.next, Append(acc, r.val)) ELSE NoParse

\* json.loads(s): the value, or JSONDecodeError
JsonLoads(toks) ==
  LET body == Strip(toks)
      r == ParseValue(body, 1)
  IN IF r.ok /\ r.next = Len(body) + 1 THEN Ok(r.val) ELSE Raise("JSONDecodeError")

-----------------------------------------------------------------------------
(* src/utils/preprocess_llm_reponse.py *)

LegacyVentilationLevel == 3
LegacyVibeAction == 1
LegacyVibeMainVolume == 5

NeutralMotor ==
  D([percentage |-> I(0), type |-> S("relative"), direction |-> S("neutral")])

NeutralAdjust == D([direction |-> S("neutral"), percentage |-> I(0)])

\* the value DEFAULT_RESPONSE_STRUCTURE is bound to when the module is loaded
DefaultLiteral ==
  D([seatCommand |-> D([
       vibe |-> D([action |-> I(0), navigationTime |-> S("00:00:00:000"),
                   mainVolume |-> I(0), vibeVolume |-> I(0), audioVolume |-> I(0),
                   cushionVolume |-> I(0), backrestVolume |-> I(0)]),
       pneumatic |-> D([
         adjustement |-> D([lumbar |-> NeutralAdjust, neckrest |-> NeutralAdjust]),
         massage |-> D([is_active |-> B(FALSE), experience |-> S("none"),
                        intensity |-> S("off")])]),
       thermal |-> D([heatingLevel |-> I(0), ventilationLevel |-> I(0)]),
       motors |-> D([Track |-> NeutralMotor, Backrest |-> NeutralMotor,
                     Height |-> NeutralMotor, Tilt |-> NeutralMotor,
                     UBA |-> NeutralMotor, Headrest |-> NeutralMotor,
                     CLA |-> NeutralMotor]),
       seatbelt |-> D([percentage |-> I(0)])])])

\* json.loads(s[s.find('{') : s.rfind('}') + 1]) when the braces are there
ExtractBraced(s) ==
  IF ~Is(s, "text") THEN [exc |-> "nobrace"]
  ELSE LET json_start == Find(s.text, LB)
           json_end == RFind(s.text, RB) + 1
       IN IF json_start >= 0 /\ json_end > json_start
            THEN JsonLoads(Slice(s.text, json_start, json_end))
            ELSE [exc |-> "nobrace"]

extract_json_from_response(response) ==
  LET fromAnswer(a) ==
        IF a.exc = "none" THEN a.val
        ELSE Get(response, "seatCommand", D(EmptyFn)).val
      command(g) == IF g.exc = "none" THEN g.val ELSE D(EmptyFn)
      fromText(r) ==
        IF r.exc = "none" THEN command(Get(r.val, "seatCommand", D(EmptyFn)))
        ELSE D(EmptyFn)
  IN IF IsDict(response)
       THEN fromAnswer(IF "answer" \in DOMAIN response.dict
                          /\ IsStr(response.dict["answer"])
                         THEN ExtractBraced(response.dict["answer"])
                         ELSE [exc |-> "nobrace"])
     ELSE IF IsStr(response) THEN fromText(ExtractBraced(response))
     ELSE D(EmptyFn)

\* x.get(k, 0) > 0
GetGt0(x, k) ==
  LET g == Get(x, k, I(0))
  IN CASE g.exc # "none" -> g
       [] Is(g.val, "int")  -> Ok(g.val.int > 0)
       [] Is(g.val, "bool") -> Ok(g.val.bool)
       [] OTHER -> Raise("TypeError")

\* x.get(k1, {}).get(k2, 0) > 0
GetGetGt0(x, k1, k2) ==
  LET g == Get(x, k1, D(EmptyFn))
  IN IF g.exc # "none" THEN g ELSE GetGt0(g.val, k2)

\* a or b
OrElse(a, b) == IF a.exc # "none" \/ a.val THEN a ELSE b

\* any(motor.get("percentage", 0) > 0 for motor in f.values() if isinstance(motor, dict))
RECURSIVE AnyMotorActive(_, _)
AnyMotorActive(f, ks) ==
  IF ks = << >> THEN Ok(FALSE)
  ELSE IF ~IsDict(f[Head(ks)]) THEN AnyMotorActive(f, Tail(ks))
  ELSE LET g == GetGt0(f[Head(ks)], "percentage")
       IN IF g.exc # "none" \/ g.val THEN g ELSE AnyMotorActive(f, Tail(ks))

\* the Python value a TLA+ truth value stands for
AsPy(r) == IF r.exc # "none" THEN r ELSE Ok(B(r.val))

is_section_active(section_data, section_name) ==
  IF ~Truthy(section_data) THEN Ok(B(FALSE))
  ELSE CASE section_name = "massage" -> Get(section_data, "is_active", B(FALSE))
         [] section_name = "thermal" ->
              AsPy(OrElse(GetGt0(section_data, "heatingLevel"),
                          GetGt0(section_data, "ventilationLevel")))
         [] section_name = "vibe" -> AsPy(GetGt0(section_data, "action"))
         [] section_name = "pneumatic_adjustment" ->
              AsPy(OrElse(GetGetGt0(section_data, "lumbar", "percentage"),
                          GetGetGt0(section_data, "neckrest", "percentage")))
         [] section_name = "motors" ->
              IF IsDict(section_data)
                THEN AsPy(AnyMotorActive(section_data.dict, Keys(section_data.dict)))
                ELSE Raise("AttributeError")
         [] section_name = "seatbelt" -> AsPy(GetGt0(section_data, "percentage"))
         [] OTHER -> Ok(B(FALSE))

\* key in container and is_section_active(container[key], name)
ActiveSection(container, key, name) ==
  LET verdict(a) == IF a.exc # "none" THEN a ELSE Ok(Truthy(a.val))
      item(it) ==
        IF it.exc # "none" THEN it ELSE verdict(is_section_active(it.val, name))
      member(c) ==
        IF c.exc # "none" THEN c
        ELSE IF ~c.val THEN Ok(FALSE)
        ELSE item(GetItem(container, key))
  IN member(Contains(key, container))

\* The body of process_llm_response runs on st = [sc, active, exc]: sc is the
\* dict result["seatCommand"], which DEFAULT_RESPONSE_STRUCTURE.copy() shares
\* with the module global; active is active_sections; exc is the exception
\* raised so far ("none" while the body is still running).

Failed(st, e) == [st EXCEPT !.exc = e]

\* lines 151-157, 174-176: a top-level section (vibe, thermal, seatbelt)
MergeTop(st, actions, key) ==
  LET merged(marked, u) ==
        IF u.exc # "none" THEN Failed(marked, u.exc)
        ELSE [marked EXCEPT !.sc[key] = D(u.val)]
      decide(a) ==
        IF a.exc # "none" THEN Failed(st, a.exc)
        ELSE IF ~a.val THEN st
        ELSE merged([st EXCEPT !.active = @ \cup {key}],
                    DictUpdate(st.sc[key].dict, actions.dict[key]))
  IN IF st.exc # "none" THEN st ELSE decide(ActiveSection(actions, key, key))

\* lines 161-163 if a motor's percentage were moved by the fragment's
\* percentage instead of being set to it
RECURSIVE MergeMotorItemsRelative(_, _, _)
MergeMotorItemsRelative(st, motors, ks) ==
  IF ks = << >> \/ st.exc # "none" THEN st
  ELSE LET motor == Head(ks)
           moved(old, f) ==
             IF "percentage" \in DOMAIN f /\ "percentage" \in DOMAIN old
                  /\ Is(f["percentage"], "int") /\ Is(old["percentage"], "int")
               THEN [f EXCEPT !["percentage"] = I(old["percentage"].int + @.int)]
               ELSE f
           step(old, u) ==
             IF u.exc # "none" THEN Failed(st, u.exc)
             ELSE MergeMotorItemsRelative(
                    [st EXCEPT !.sc["motors"] =
                       D([st.sc["motors"].dict EXCEPT ![motor] = D(moved(old, u.val))])],
                    motors, Tail(ks))
       IN IF motor \notin DOMAIN st.sc["motors"].dict
            THEN MergeMotorItemsRelative(st, motors, Tail(ks))
            ELSE step(st.sc["motors"].dict[motor].dict,
                      DictUpdate(st.sc["motors"].dict[motor].dict, motors[motor]))

\* lines 161-163: for motor, settings in actions["motors"].items()
RECURSIVE MergeMotorItems(_, _, _)
MergeMotorItems(st, motors, ks) ==
  IF ks = << >> \/ st.exc # "none" THEN st
  ELSE LET motor == Head(ks)
           u == DictUpdate(st.sc["motors"].dict[motor].dict, motors[motor])
       IN IF motor \notin DOMAIN st.sc["motors"].dict
            THEN MergeMotorItems(st, motors, Tail(ks))
          ELSE IF u.exc # "none" THEN Failed(st, u.exc)
          ELSE MergeMotorItems(
                 [st EXCEPT !.sc["motors"] =
                    D([st.sc["motors"].dict EXCEPT ![motor] = D(u.val)])],
                 motors, Tail(ks))

\* lines 159-163
MergeMotors(st, actions) ==
  LET decide(a) ==
        IF a.exc # "none" THEN Failed(st, a.exc)
        ELSE IF ~a.val THEN st
        ELSE MergeMotorItems([st EXCEPT !.active = @ \cup {"motors"}],
                             actions.dict["motors"].dict,
                             Keys(actions.dict["motors"].dict))
  IN IF st.exc # "none" THEN st
     ELSE decide(ActiveSection(actions, "motors", "motors"))

\* lines 166-172: one sub-section of actions["pneumatic"]
MergePneumaticPart(st, pneumatic, key, name) ==
  LET merged(marked, u) ==
        IF u.exc # "none" THEN Failed(marked, u.exc)
        ELSE [marked EXCEPT !.sc["pneumatic"] =
                D([st.sc["pneumatic"].dict EXCEPT ![key] = D(u.val)])]
      decide(a) ==
        IF a.exc # "none" THEN Failed(st, a.exc)
        ELSE IF ~a.val THEN st
        ELSE merged([st EXCEPT !.active = @ \cup {name}],
                    DictUpdate(st.sc["pneumatic"].dict[key].dict, pneumatic.dict[key]))
  IN IF st.exc # "none" THEN st ELSE decide(ActiveSection(pneumatic, key, name))

\* lines 165-172
MergePneumatic(st, actions) ==
  LET c == Contains("pneumatic", actions)
      p == GetItem(actions, "pneumatic")
  IN IF st.exc # "none" THEN st
     ELSE IF c.exc # "none" THEN Failed(st, c.exc)
     ELSE IF ~c.val THEN st
     ELSE IF p.exc # "none" THEN Failed(st, p.exc)
     ELSE MergePneumaticPart(MergePneumaticPart(st, p.val, "massage", "massage"),
                             p.val, "adjustement", "pneumatic_adjustment")

\* x[k1][k2] = val, as the value of x afterwards
SetItem2(x, k1, k2, val) ==
  LET a == GetItem(x, k1)
  IN IF a.exc # "none" THEN a
     ELSE IF ~IsDict(a.val) THEN Raise("TypeError")
     ELSE Ok(D([x.dict EXCEPT ![k1] =
                  D([k \in DOMAIN a.val.dict \cup {k2} |-> IF k = k2 THEN val ELSE a.val.dict[k]])]))

\* x[k1][k2][k3] = val, as the value of x afterwards
SetItem3(x, k1, k2, k3, val) ==
  LET a == GetItem(x, k1)
      b == SetItem2(a.val, k2, k3, val)
  IN IF a.exc # "none" THEN a
     ELSE IF b.exc # "none" THEN b
     ELSE Ok(D([x.dict EXCEPT ![k1] = b.val]))

\* handle_legacy_fields(actions, result): result afterwards, or the exception
handle_legacy_fields(actions, result) ==
  LET massaged(massage, r3) ==
        IF r3.exc # "none" THEN r3
        ELSE IF IsBool(massage.val)
          THEN SetItem3(r3.val, "pneumatic", "massage", "is_active", massage.val)
        ELSE r3
      volume(vibe, massage, r2) ==
        IF r2.exc # "none" THEN r2
        ELSE massaged(massage,
               IF IsBool(vibe.val) /\ vibe.val.bool
                 THEN SetItem2(r2.val, "vibe", "mainVolume", I(LegacyVibeMainVolume))
                 ELSE r2)
      action(vibe, massage, r1) ==
        IF r1.exc # "none" THEN r1
        ELSE volume(vibe, massage,
               IF IsBool(vibe.val) /\ vibe.val.bool
                 THEN SetItem2(r1.val, "vibe", "action", I(LegacyVibeAction))
                 ELSE r1)
      start(ventilation, vibe, massage) ==
        IF ventilation.exc # "none" THEN ventilation
        ELSE action(vibe, massage,
               IF IsBool(ventilation.val)
                 THEN SetItem2(result, "thermal", "ventilationLevel",
                               I(IF ventilation.val.bool THEN LegacyVentilationLevel
                                 ELSE 0))
                 ELSE Ok(result))
  IN start(Get(actions, "ventilation", None), Get(actions, "vibe", None),
           Get(actions, "massage", None))

\* lines 182-187: the except clauses; the last one is "except Exception"
CatchesOnlyParseErrors(exc) == exc \in {"JSONDecodeError", "ValueError"}

Catches(exc) == exc \in {"JSONDecodeError", "ValueError"} \/ TRUE

\* process_llm_response(response) with the module global bound to glob:
\* [def: the global afterwards, ret: the value returned, exc: the exception
\* the body raised, raised: whether it left the function]
process_llm_response(response, glob) ==
  LET outcome(newDef, leg, active) ==
        IF leg.exc = "none"
          THEN [def |-> newDef, ret |-> leg.val, exc |-> "none", raised |-> FALSE,
                active |-> active]
        ELSE IF Catches(leg.exc)
          THEN [def |-> newDef, ret |-> newDef, exc |-> leg.exc, raised |-> FALSE,
                active |-> active]
        ELSE [def |-> newDef, ret |-> None, exc |-> leg.exc, raised |-> TRUE,
              active |-> active]
      legacy(actions, st5, newDef) ==
        outcome(newDef,
                IF st5.exc # "none" THEN Raise(st5.exc)
                ELSE handle_legacy_fields(actions, newDef),
                st5.active)
      sections(actions, st5) ==
        legacy(actions, st5, D([glob.dict EXCEPT !["seatCommand"] = D(st5.sc)]))
      body(actions, st0) ==
        IF ~Truthy(actions)
          THEN [def |-> glob, ret |-> glob, exc |-> "none", raised |-> FALSE,
                active |-> {}]
          ELSE sections(actions,
                 MergeTop(MergePneumatic(MergeMotors(MergeTop(MergeTop(st0,
                   actions, "vibe"), actions, "thermal"), actions), actions),
                   actions, "seatbelt"))
  IN body(extract_json_from_response(response),
          [sc |-> glob.dict["seatCommand"].dict, active |-> {}, exc |-> "none"])

-----------------------------------------------------------------------------
(* Inputs of the normalizer *)

Cmd(f) == D([seatCommand |-> D(f)])

Responses ==
  {
    Cmd([thermal |-> D([heatingLevel |-> I(3)])]),
    Cmd([thermal |-> D([heatingLevel |-> I(0), ventilationLevel |-> I(0)])]),
    Cmd([motors |-> D([Track |-> D([percentage |-> I(40)])])]),
    Cmd([motors |-> D([Backrest |-> D([percentage |-> I(20)])])]),
    Cmd([motors |-> D([Track |-> D([percentage |-> I(0), direction |-> S("forward")])])]),
    Cmd([vibe |-> D([action |-> I(2)]), motors |-> I(5)]),
    Cmd([motors |-> D([Track |-> D([percentage |-> I(40)]), Height |-> I(5)])]),
    Cmd([motors |-> D([Lift |-> D([percentage |-> I(10)])])]),
    Cmd(EmptyFn),
    Cmd([ventilation |-> B(TRUE)]),
    Cmd([vibe |-> B(TRUE)]),
    Cmd([massage |-> B(TRUE)]),
    Cmd([pneumatic |-> D([adjustement |-> D([lumbar |-> D([percentage |-> I(30)])])])]),
    Cmd([pneumatic |-> D([massage |-> D([is_active |-> B(TRUE), experience |-> S("wave")])])]),
    Cmd([pneumatic |-> D([massage |-> D([is_active |-> B(FALSE), experience |-> S("wave")])])]),
    Cmd([seatbelt |-> D([percentage |-> I(20)])]),
    Cmd([thermal |-> D([heatingLevel |-> I(150), fanSpeed |-> I(1)])]),
    Cmd([foo |-> I(1)]),
    None,
    I(5),
    L(<<I(1)>>),
    D([answer |-> T(<<W, LB, KEY("thermal"), LB, KEY("ventilationLevel"), ATOM(I(2)), RB, RB>>)]),
    D([answer |-> S("hello"), seatCommand |-> D([seatbelt |-> D([percentage |-> I(0)])])]),
    T(<<W>>),
    T(<<W, LB, KEY("seatCommand"), LB, KEY("thermal"), LB, KEY("heatingLevel"), ATOM(I(3)), RB, RB, RB, W>>),
    T(<<RB, W, LB>>),
    T(<<LB, W, RB>>),
    T(<<LB, KEY("thermal"), LB, KEY("heatingLevel"), ATOM(I(3)), RB, RB>>),
    T(<<LB, KEY("seatCommand"), ATOM(I(3)), RB>>),
    T(<<LB, KEY("seatCommand"), ATOM(S("vibe")), RB>>),
    T(<<LB, KEY("seatCommand"), LB, KEY("thermal"), ATOM(S("x")), RB, RB>>),
    T(<<LB, KEY("seatCommand"), LB, KEY("thermal"), LB, KEY("heatingLevel"), ATOM(S("x")), RB, RB, RB>>),
    T(<<LB, KEY("seatCommand"), LB, KEY("pneumatic"), ATOM(I(3)), RB, RB>>)
  }

-----------------------------------------------------------------------------
(* The normalizer called repeatedly in one process *)

NormInit ==
  /\ DEFAULT_RESPONSE_STRUCTURE = DefaultLiteral
  /\ normArg = None
  /\ normRet = None
  /\ normOutcome = "none"
  /\ normExc = "none"
  /\ normCalls = 0

Normalize(f) ==
  /\ normCalls < MaxCalls
  /\ \E r \in {process_llm_response(f, DEFAULT_RESPONSE_STRUCTURE)} :
       /\ DEFAULT_RESPONSE_STRUCTURE' = r.def
       /\ normArg' = f
       /\ normRet' = r.ret
       /\ normOutcome' = IF r.raised THEN "raised" ELSE "returned"
       /\ normExc' = r.exc
  /\ normCalls' = normCalls + 1
  /\ UNCHANGED <<toolCall, hostVars>>

\* the command a call returned is handed to process_llm_response again
Renormalize ==
  /\ normOutcome = "returned"
  /\ Normalize(normRet)

NormNext ==
  \/ \E f \in Responses : Normalize(f)
  \/ Renormalize

-----------------------------------------------------------------------------
(* The tools of the motor MCP server, src/mcp/mcp_server.py.  An argument  *)
(* is a Python int, or None where the signature allows it; a result is the *)
(* dict the tool returns, its f-string message the text and the values     *)
(* formatted into it.                                                      *)

MOTOR_MIN == 0
MOTOR_MAX == 100
MOTOR_STEP == 10

clampLowerOnly(value) ==
  IF MOTOR_MIN > value THEN MOTOR_MIN ELSE value

\* called with one argument everywhere: min_value and max_value are the defaults
clamp(value) ==
  LET min(a, b) == IF b < a THEN b ELSE a
      max(a, b) == IF b > a THEN b ELSE a
  IN max(MOTOR_MIN, min(value, MOTOR_MAX))

adjust_thermal(heatingLevel) ==
  LET level == I(clamp(heatingLevel.int))
  IN D([status |-> S("thermal adjusted"),
        heatingLevel |-> level,
        message |-> [fmt |-> <<"Thermal level set to", level>>]])

adjust_ventilation(ventilationLevel) ==
  LET level == I(clamp(ventilationLevel.int))
  IN D([status |-> S("ventilation adjusted"),
        ventilationLevel |-> level,
        message |-> [fmt |-> <<"Ventilation level set to", level>>]])

adjust_highway_experience(backrest, track, tilt) ==
  LET b == I(clamp(backrest.int))
      t == I(clamp(track.int))
      s == I(clamp(tilt.int))
  IN D([status |-> S("highway experience activated"),
        motors |-> D([backrest |-> b, track |-> t, seatTilt |-> s]),
        message |-> [fmt |-> <<"Highway experience activated with", b, t, s>>]])

adjust_city_experience(backrest, track, tilt) ==
  LET b == I(clamp(backrest.int))
      t == I(clamp(track.int))
      s == I(clamp(tilt.int))
  IN D([status |-> S("city experience activated"),
        motors |-> D([backrest |-> b, track |-> t, tilt |-> s]),
        message |-> [fmt |-> <<"City experience activated with", b, t, s>>]])

\* line 124 overwrites the step argument
move_track_forward(current_value, step, new_value) ==
  LET forced == I(MOTOR_STEP)
      target == IF Is(new_value, "none") THEN current_value.int + forced.int
                ELSE new_value.int
      nv == I(clamp(target))
  IN D([status |-> S("Track moved forward"),
        motor |-> S("Track"),
        previous_value |-> current_value,
        new_value |-> nv,
        step |-> forced,
        message |-> [fmt |-> <<"Track moved forward", current_value, nv>>]])

move_track_backward(current_value, step, new_value) ==
  LET target == IF Is(new_value, "none") THEN current_value.int - step.int
                ELSE new_value.int
      nv == I(clamp(target))
  IN D([status |-> S("Track moved backward"),
        motor |-> S("Track"),
        previous_value |-> current_value,
        new_value |-> nv,
        step |-> step,
        message |-> [fmt |-> <<"Track moved backward", current_value, nv>>]])

move_height_up(current_value, step, new_value) ==
  LET target == IF Is(new_value, "none") THEN current_value.int - step.int
                ELSE new_value.int
      nv == I(clamp(target))
  IN D([status |-> S("height moved up"),
        motor |-> S("height"),
        previous_value |-> current_value,
        new_value |-> nv,
        step |-> step,
        message |-> [fmt |-> <<"Track moved backward", current_value, nv>>]])

move_height_down(current_value) ==
  LET nv == I(clamp(current_value.int - MOTOR_STEP))
  IN D([status |-> S("Height moved down"),
        motor |-> S("Height"),
        previous_value |-> current_value,
        new_value |-> nv,
        step |-> I(MOTOR_STEP),
        message |-> [fmt |-> <<"Seat height lowered", current_value, nv>>]])

move_backrest_forward(current_value) ==
  LET nv == I(clamp(current_value.int + MOTOR_STEP))
  IN D([status |-> S("Backrest moved forward"),
        motor |-> S("Backrest"),
        previous_value |-> current_value,
        new_value |-> nv,
        step |-> I(MOTOR_STEP),
        message |-> [fmt |-> <<"Backrest moved to more upright position", current_value, nv>>]])

move_backrest_backward(current_value) ==
  LET nv == I(clamp(current_value.int - MOTOR_STEP))
  IN D([status |-> S("Backrest moved backward"),
        motor |-> S("Backrest"),
        previous_value |-> current_value,
        new_value |-> nv,
        step |-> I(MOTOR_STEP),
        message |-> [fmt |-> <<"Backrest reclined", current_value, nv>>]])

move_seattilt_up(current_value) ==
  LET nv == I(clamp(current_value.int + MOTOR_STEP))
  IN D([status |-> S("SeatTilt moved up"),
        motor |-> S("SeatTilt"),
        previous_value |-> current_value,
        new_value |-> nv,
        step |-> I(MOTOR_STEP),
        message |-> [fmt |-> <<"Seat tilted up", current_value, nv>>]])

move_seattilt_down(current_value) ==
  LET nv == I(clamp(current_value.int - MOTOR_STEP))
  IN D([status |-> S("SeatTilt moved down"),
        motor |-> S("SeatTilt"),
        previous_value |-> current_value,
        new_value |-> nv,
        step |-> I(MOTOR_STEP),
        message |-> [fmt |-> <<"Seat tilted down", current_value, nv>>]])

move_uba_forward(current_value) ==
  LET nv == I(clamp(current_value.int + MOTOR_STEP))
  IN D([status |-> S("UBA moved forward"),
        motor |-> S("UBA"),
        previous_value |-> current_value,
        new_value |-> nv,
        step |-> I(MOTOR_STEP),
        message |-> [fmt |-> <<"Upper back support adjusted", current_value, nv>>]])

move_uba_backward(current_value) ==
  LET nv == I(clamp(current_value.int - MOTOR_STEP))
  IN D([status |-> S("UBA moved backward"),
        motor |-> S("UBA"),
        previous_value |-> current_value,
        new_value |-> nv,
        step |-> I(MOTOR_STEP),
        message |-> [fmt |-> <<"Upper back support adjusted", current_value, nv>>]])

move_headrest_forward(current_value) ==
  LET nv == I(clamp(current_value.int + MOTOR_STEP))
  IN D([status |-> S("Headrest moved forward"),
        motor |-> S("Headrest"),
        previous_value |-> current_value,
        new_value |-> nv,
        step |-> I(MOTOR_STEP),
        message |-> [fmt |-> <<"Headrest moved closer", current_value, nv>>]])

move_headrest_backward(current_value) ==
  LET nv == I(clamp(current_value.int - MOTOR_STEP))
  IN D([status |-> S("Headrest moved backward"),
        motor |-> S("Headrest"),
        previous_value |-> current_value,
        new_value |-> nv,
        step |-> I(MOTOR_STEP),
        message |-> [fmt |-> <<"Headrest moved away", current_value, nv>>]])

\* the calls a client can make: every tool with integer arguments inside
\* and outside 0..100; step left out is its default MOTOR_STEP, new_value
\* left out is None
ToolCalls ==
  LET ints == {I(n) : n \in {-20, 0, 10, 30, 70, 100, 130}}
      presets == {I(n) : n \in {-20, 70, 130}}
      steps == {I(n) : n \in {-20, 10, 30, 70}}
      targets == {I(n) : n \in {-20, 0, 100, 130}} \cup {None}
      call(tool, kwargs) == [tool |-> tool, kwargs |-> kwargs]
  IN UNION {
       {call("adjust_thermal", [heatingLevel |-> h]) : h \in ints},
       {call("adjust_ventilation", [ventilationLevel |-> v]) : v \in ints},
       {call(e, [backrest |-> a[1], track |-> a[2], tilt |-> a[3]]) :
          e \in {"adjust_highway_experience", "adjust_city_experience"},
          a \in presets \X presets \X presets},
       {call(m, [current_value |-> a[1], step |-> a[2], new_value |-> a[3]]) :
          m \in {"move_track_forward", "move_track_backward", "move_height_up"},
          a \in ints \X steps \X targets},
       {call(m, [current_value |-> c]) :
          m \in {"move_height_down", "move_backrest_forward", "move_backrest_backward",
                 "move_seattilt_up", "move_seattilt_down", "move_uba_forward",
                 "move_uba_backward", "move_headrest_forward", "move_headrest_backward"},
          c \in ints} }

\* FastMCP runs the registered function of that name with the arguments
ExecuteTool(tool, kw) ==
  CASE tool = "adjust_thermal" -> adjust_thermal(kw.heatingLevel)
    [] tool = "adjust_ventilation" -> adjust_ventilation(kw.ventilationLevel)
    [] tool = "adjust_highway_experience" ->
         adjust_highway_experience(kw.backrest, kw.track, kw.tilt)
    [] tool = "adjust_city_experience" ->
         adjust_city_experience(kw.backrest, kw.track, kw.tilt)
    [] tool = "move_track_forward" ->
         move_track_forward(kw.current_value, kw.step, kw.new_value)
    [] tool = "move_track_backward" ->
         move_track_backward(kw.current_value, kw.step, kw.new_value)
    [] tool = "move_height_up" ->
         move_height_up(kw.current_value, kw.step, kw.new_value)
    [] tool = "move_height_down" -> move_height_down(kw.current_value)
    [] tool = "move_backrest_forward" -> move_backrest_forward(kw.current_value)
    [] tool = "move_backrest_backward" -> move_backrest_backward(kw.current_value)
    [] tool = "move_seattilt_up" -> move_seattilt_up(kw.current_value)
    [] tool = "move_seattilt_down" -> move_seattilt_down(kw.current_value)
    [] tool = "move_uba_forward" -> move_uba_forward(kw.current_value)
    [] tool = "move_uba_backward" -> move_uba_backward(kw.current_value)
    [] tool = "move_headrest_forward" -> move_headrest_forward(kw.current_value)
    [] tool = "move_headrest_backward" -> move_headrest_backward(kw.current_value)

CallTool(c) ==
  /\ toolCall' = [tool |-> c.tool, kwargs |-> c.kwargs, ret |-> ExecuteTool(c.tool, c.kwargs)]
  /\ UNCHANGED <<normVars, hostVars>>

ToolNext == \E c \in ToolCalls : CallTool(c)

-----------------------------------------------------------------------------
(* The telemetry file and src/utils/metadata_handler.py *)

Snapshot(posture, track) ==
  D([DrivingMode |-> S("city"), posture |-> S(posture),
     cabin_tempreature |-> D([value |-> I(22), unit |-> S("C")]),
     car_speed |-> I(50), ventilation |-> I(0), fatigue_level |-> S("low"),
     motors |-> D([Track |-> I(track), Height |-> I(50), Backrest |-> I(50),
                   SeatTilt |-> I(50), Uba |-> I(50), Headrest |-> I(50)])])

SnapshotA == Snapshot("upright", 50)

Doc(x) == [yaml |-> x]        \* a well-formed YAML document that denotes x

\* [garbage |-> TRUE] is text that is not YAML
FileContents ==
  { Doc(SnapshotA),
    Doc(Snapshot("reclined", 60)),
    Doc(D([DrivingMode |-> S("city")])),
    Doc(None),
    [garbage |-> TRUE] }

\* yaml.safe_load(file)
YamlSafeLoad(content) ==
  IF "yaml" \in DOMAIN content THEN Ok(content.yaml) ELSE Raise("YAMLError")

format_metadata_for_prompt(metadata) ==
  LET mp == GetItem(metadata, "motors")
      temp == GetItem(metadata, "cabin_tempreature")
      fields == << GetItem(metadata, "DrivingMode"), GetItem(metadata, "posture"),
                   GetItem(temp.val, "value"), GetItem(temp.val, "unit"),
                   GetItem(metadata, "car_speed"), GetItem(metadata, "ventilation"),
                   Get(metadata, "Traffic", S("Unknown")),
                   GetItem(metadata, "fatigue_level"),
                   GetItem(mp.val, "Track"), GetItem(mp.val, "Height"),
                   GetItem(mp.val, "Backrest"), GetItem(mp.val, "SeatTilt"),
                   GetItem(mp.val, "Uba"), GetItem(mp.val, "Headrest") >>
  IN IF ~Truthy(metadata) THEN S("No current driver metadata available.")
     ELSE IF mp.exc # "none" \/ temp.exc # "none"
             \/ \E i \in DOMAIN fields : fields[i].exc # "none"
       THEN S("Error processing driver metadata.")
     ELSE [fmt |-> [i \in DOMAIN fields |-> fields[i].val]]

-----------------------------------------------------------------------------
(* Threads of src/app.py *)

FreshnessDeadline == 5

Workers == {"w1", "w2"}

Threads == {"main"} \cup Workers

Servers == <<"motor", "knowledge">>

ServerSet == {"motor", "knowledge"}

ServerUrl(s) == IF s = "motor" THEN "http://localhost:5051" ELSE "http://localhost:5052"

\* the tools each server lists at /mcp/tools
DeclaredTools(s) ==
  IF s = "motor"
    THEN << "adjust_thermal", "adjust_ventilation", "adjust_highway_experience",
            "adjust_city_experience", "move_track_forward", "move_track_backward",
            "move_height_up", "move_height_down", "move_backrest_forward",
            "move_backrest_backward", "move_seattilt_up", "move_seattilt_down",
            "move_uba_forward", "move_uba_backward", "move_headrest_forward",
            "move_headrest_backward" >>
    ELSE << "get_knowledge", "get_driving_metadata" >>

\* how a server answers GET /mcp/tools: 200 with its tools, 200 with the tools
\* of both servers (what listens at its address serves them all), 200 with a
\* JSON object without "tools", another status, 200 with a body that is not a
\* JSON object, no answer (connection refused), or a connection that is
\* accepted and never answered
BackendModes == {"ok", "both", "notools", "non200", "malformed", "down", "silent"}

\* when the host starts both servers answer, or the motor server has not been
\* started yet
InitialBackends ==
  { [s \in ServerSet |-> "ok"],
    [s \in ServerSet |-> IF s = "motor" THEN "down" ELSE "ok"] }

NoLocals ==
  [ retRefresh |-> "", retGcm |-> "", retDisc |-> "",
    mtime |-> 0, parsed |-> None, loaded |-> None, metadata |-> None,
    discIdx |-> 0, answers |-> EmptyFn,
    itObj |-> 0, itSize |-> 0, toolsSeen |-> EmptyFn,
    reply |-> None, decision |-> None, out |-> "",
    url |-> << >>, status |-> 0, toolResult |-> None, text |-> None,
    sent |-> << >>,
    stale |-> FALSE, loadFailed |-> FALSE, atEntry |-> None ]

HostInit ==
  /\ now = Epoch
  /\ ticks = 0
  /\ fileExists = TRUE
  /\ fileMtime = 1
  /\ fileContent = Doc(SnapshotA)
  /\ fileWrites = 0
  /\ last_metadata = None
  /\ last_modified_time = 0
  /\ cached_metadata = None
  /\ last_metadata_update = 0
  /\ available_tools = EmptyFn
  /\ catalogObj = 0
  /\ backend \in InitialBackends
  /\ backendChanges = 0
  /\ pc = [p \in Threads |-> IF p = "main" THEN "initialize" ELSE "idle"]
  /\ lv = [p \in Threads |-> NoLocals]
  /\ resp = [p \in Threads |-> None]
  /\ calls = [p \in Threads |-> 0]
  /\ reloadAttempts = 0
  /\ reloadFailures = 0
  /\ posts = << >>

Goto(p, label) == pc' = [pc EXCEPT ![p] = label]

\* the failure of a load that get_current_metadata asked for
NoteFailure(p) ==
  reloadFailures' = IF lv[p].retRefresh = "gcm_test" THEN reloadFailures + 1 ELSE reloadFailures

(* MetadataHandler.load_latest_metadata *)

\* line 15
LoadExists(p) ==
  /\ pc[p] = "load_exists"
  /\ Goto(p, IF fileExists THEN "load_mtime" ELSE "load_ret")
  /\ UNCHANGED <<normVars, toolCall, now, ticks, fileVars, cacheVars, catalogVars, backendVars,
                 lv, resp, calls, ghostVars, posts>>

\* line 16; lines 22-24 when the file has gone meanwhile
LoadMtime(p) ==
  /\ pc[p] = "load_mtime"
  /\ IF fileExists
       THEN /\ lv' = [lv EXCEPT ![p].mtime = fileMtime]
            /\ Goto(p, "load_cmp")
            /\ UNCHANGED reloadFailures
       ELSE /\ lv' = [lv EXCEPT ![p].loaded = D(EmptyFn), ![p].loadFailed = TRUE]
            /\ Goto(p, "refresh_store")
            /\ NoteFailure(p)
  /\ UNCHANGED <<normVars, toolCall, now, ticks, fileVars, cacheVars, catalogVars, backendVars,
                 resp, calls, reloadAttempts, posts>>

\* line 17 if the file were read whatever its modification time
LoadCmpAlways(p) ==
  /\ pc[p] = "load_cmp"
  /\ Goto(p, "load_read")
  /\ UNCHANGED <<normVars, toolCall, now, ticks, fileVars, cacheVars, catalogVars, backendVars,
                 lv, resp, calls, ghostVars, posts>>

\* line 17
LoadCmp(p) ==
  /\ pc[p] = "load_cmp"
  /\ Goto(p, IF lv[p].mtime # last_modified_time THEN "load_read" ELSE "load_ret")
  /\ UNCHANGED <<normVars, toolCall, now, ticks, fileVars, cacheVars, catalogVars, backendVars,
                 lv, resp, calls, ghostVars, posts>>

\* lines 18-19, the right-hand side; lines 22-24 when open or safe_load raises
LoadRead(p) ==
  /\ pc[p] = "load_read"
  /\ LET y == YamlSafeLoad(fileContent)
     IN IF fileExists /\ y.exc = "none"
          THEN /\ lv' = [lv EXCEPT ![p].parsed = y.val]
               /\ Goto(p, "load_store_md")
               /\ UNCHANGED reloadFailures
          ELSE /\ lv' = [lv EXCEPT ![p].loaded = D(EmptyFn), ![p].loadFailed = TRUE]
               /\ Goto(p, "refresh_store")
               /\ NoteFailure(p)
  /\ UNCHANGED <<normVars, toolCall, now, ticks, fileVars, cacheVars, catalogVars, backendVars,
                 resp, calls, reloadAttempts, posts>>

\* line 19, the assignment
LoadStoreMetadata(p) ==
  /\ pc[p] = "load_store_md"
  /\ last_metadata' = lv[p].parsed
  /\ Goto(p, "load_store_mt")
  /\ UNCHANGED <<normVars, toolCall, now, ticks, fileVars, last_modified_time, cached_metadata,
                 last_metadata_update, catalogVars, backendVars, lv, resp, calls,
                 ghostVars, posts>>

\* line 20
LoadStoreMtime(p) ==
  /\ pc[p] = "load_store_mt"
  /\ last_modified_time' = lv[p].mtime
  /\ Goto(p, "load_ret")
  /\ UNCHANGED <<normVars, toolCall, now, ticks, fileVars, last_metadata, cached_metadata,
                 last_metadata_update, catalogVars, backendVars, lv, resp, calls,
                 ghostVars, posts>>

\* line 21
LoadReturn(p) ==
  /\ pc[p] = "load_ret"
  /\ lv' = [lv EXCEPT ![p].loaded = IF Truthy(last_metadata) THEN last_metadata ELSE D(EmptyFn)]
  /\ reloadFailures' = IF Truthy(last_metadata) THEN reloadFailures
                       ELSE IF lv[p].retRefresh = "gcm_test" THEN reloadFailures + 1
                       ELSE reloadFailures
  /\ Goto(p, "refresh_store")
  /\ UNCHANGED <<normVars, toolCall, now, ticks, fileVars, cacheVars, catalogVars, backendVars,
                 resp, calls, reloadAttempts, posts>>

(* DynamicMCPHost.refresh_metadata_cache *)

\* line 139, the assignment
RefreshStore(p) ==
  /\ pc[p] = "refresh_store"
  /\ cached_metadata' = lv[p].loaded
  /\ Goto(p, "refresh_stamp")
  /\ UNCHANGED <<normVars, toolCall, now, ticks, fileVars, last_metadata, last_modified_time,
                 last_metadata_update, catalogVars, backendVars, lv, resp, calls,
                 ghostVars, posts>>

\* lines 140-141
RefreshStamp(p) ==
  /\ pc[p] = "refresh_stamp"
  /\ last_metadata_update' = IF Truthy(cached_metadata) THEN now ELSE last_metadata_update
  /\ Goto(p, lv[p].retRefresh)
  /\ UNCHANGED <<normVars, toolCall, now, ticks, fileVars, last_metadata, last_modified_time,
                 cached_metadata, catalogVars, backendVars, lv, resp, calls,
                 ghostVars, posts>>

(* DynamicMCPHost.get_current_metadata *)

\* line 148 if the test allowed one time-unit more
IsStaleLate(t, stamp) == t - stamp > FreshnessDeadline + 1

IsStale(t, stamp) == t - stamp > FreshnessDeadline

\* lines 148-149
GcmCheck(p) ==
  /\ pc[p] = "gcm_check"
  /\ IF IsStale(now, last_metadata_update)
       THEN /\ lv' = [lv EXCEPT ![p].retRefresh = "gcm_test", ![p].stale = TRUE,
                                ![p].loadFailed = FALSE, ![p].atEntry = cached_metadata]
            /\ reloadAttempts' = reloadAttempts + 1
            /\ Goto(p, "load_exists")
       ELSE /\ lv' = [lv EXCEPT ![p].stale = FALSE, ![p].loadFailed = FALSE,
                                ![p].atEntry = cached_metadata]
            /\ UNCHANGED reloadAttempts
            /\ Goto(p, "gcm_test")
  /\ UNCHANGED <<normVars, toolCall, now, ticks, fileVars, cacheVars, catalogVars, backendVars,
                 resp, calls, reloadFailures, posts>>

\* lines 151, 153
GcmTest(p) ==
  /\ pc[p] = "gcm_test"
  /\ IF Truthy(cached_metadata)
       THEN /\ Goto(p, "gcm_format")
            /\ UNCHANGED lv
       ELSE /\ lv' = [lv EXCEPT ![p].metadata = S("Metadata unavailable")]
            /\ Goto(p, lv[p].retGcm)
  /\ UNCHANGED <<normVars, toolCall, now, ticks, fileVars, cacheVars, catalogVars, backendVars,
                 resp, calls, ghostVars, posts>>

\* line 152
GcmFormat(p) ==
  /\ pc[p] = "gcm_format"
  /\ lv' = [lv EXCEPT ![p].metadata = format_metadata_for_prompt(cached_metadata)]
  /\ Goto(p, lv[p].retGcm)
  /\ UNCHANGED <<normVars, toolCall, now, ticks, fileVars, cacheVars, catalogVars, backendVars,
                 resp, calls, ghostVars, posts>>

(* DynamicMCPHost.discover_tools *)

\* lines 123-134: available_tools after one server's turn in the loop
Discovered(catalog, s, mode) ==
  LET entry(tools) == [url |-> <<ServerUrl(s), "/mcp/execute">>, tools |-> tools]
      put(e) == [k \in DOMAIN catalog \cup {s} |-> IF k = s THEN e ELSE catalog[k]]
  IN CASE mode = "ok" -> put(entry(DeclaredTools(s)))
       [] mode = "both" -> put(entry(DeclaredTools("motor") \o DeclaredTools("knowledge")))
       [] mode = "notools" -> put(entry(<< >>))
       [] OTHER -> catalog

\* lines 123-125: whether the request of this pass to a server in that mode
\* succeeded, and the tools it returned
Answer(s, mode) ==
  CASE mode = "ok" -> [ok |-> TRUE, tools |-> DeclaredTools(s)]
    [] mode = "both" ->
         [ok |-> TRUE, tools |-> DeclaredTools("motor") \o DeclaredTools("knowledge")]
    [] mode = "notools" -> [ok |-> TRUE, tools |-> << >>]
    [] OTHER -> [ok |-> FALSE, tools |-> << >>]

\* line 119
DiscoverReset(p) ==
  /\ pc[p] = "disc_reset"
  /\ available_tools' = EmptyFn
  /\ catalogObj' = catalogObj + 1
  /\ lv' = [lv EXCEPT ![p].discIdx = 1, ![p].answers = EmptyFn]
  /\ Goto(p, "disc_get")
  /\ UNCHANGED <<normVars, toolCall, now, ticks, fileVars, cacheVars, backendVars, resp, calls,
                 ghostVars, posts>>

\* lines 121-134, one iteration
DiscoverGet(p) ==
  /\ pc[p] = "disc_get"
  /\ LET s == Servers[lv[p].discIdx]
     IN available_tools' = Discovered(available_tools, s, backend[s])
  /\ lv' = [lv EXCEPT
       ![p].discIdx = @ + 1,
       ![p].answers = [k \in DOMAIN @ \cup {Servers[lv[p].discIdx]} |->
                         IF k = Servers[lv[p].discIdx]
                           THEN Answer(k, backend[k]) ELSE @[k]]]
  /\ Goto(p, IF lv[p].discIdx = Len(Servers) THEN lv[p].retDisc ELSE "disc_get")
  /\ UNCHANGED <<normVars, toolCall, now, ticks, fileVars, cacheVars, catalogObj, backendVars, resp,
                 calls, ghostVars, posts>>

(* DynamicMCPHost.initialize, run and joined before the server starts *)

\* line 90
Initialize(p) ==
  /\ pc[p] = "initialize"
  /\ lv' = [lv EXCEPT ![p].retRefresh = "init_discover"]
  /\ Goto(p, "load_exists")
  /\ UNCHANGED <<normVars, toolCall, now, ticks, fileVars, cacheVars, catalogVars, backendVars,
                 resp, calls, ghostVars, posts>>

\* line 91
InitDiscover(p) ==
  /\ pc[p] = "init_discover"
  /\ lv' = [lv EXCEPT ![p].retDisc = "serving"]
  /\ Goto(p, "disc_reset")
  /\ UNCHANGED <<normVars, toolCall, now, ticks, fileVars, cacheVars, catalogVars, backendVars,
                 resp, calls, ghostVars, posts>>

\* a worker thread takes a request once app.run serves
CanStart(p) ==
  /\ p \in Workers
  /\ pc["main"] = "serving"
  /\ pc[p] = "idle"
  /\ calls[p] < MaxRequests

\* a response: (body, status code); reply records the llm_response.content it
\* answers and sent the POST requests made for it
Response(code, body) == [code |-> code, body |-> body, reply |-> None, sent |-> << >>]

\* the request of thread p ends with response r
Finish(p, r) ==
  /\ resp' = [resp EXCEPT ![p] = r]
  /\ lv' = [lv EXCEPT ![p] = NoLocals]
  /\ Goto(p, "idle")

(* DynamicMCPHost.get_metadata: GET /metadata *)

\* line 300, the call
StartMetadata(p) ==
  /\ CanStart(p)
  /\ calls' = [calls EXCEPT ![p] = @ + 1]
  /\ lv' = [lv EXCEPT ![p] = [NoLocals EXCEPT !.retGcm = "md_respond"]]
  /\ Goto(p, "gcm_check")
  /\ UNCHANGED <<normVars, toolCall, now, ticks, fileVars, cacheVars, catalogVars, backendVars,
                 resp, ghostVars, posts>>

\* lines 298-302
MetadataRespond(p) ==
  /\ pc[p] = "md_respond"
  /\ Finish(p, Response(200, [status |-> S("success"), metadata |-> lv[p].metadata,
                               raw_metadata |-> cached_metadata]))
  /\ UNCHANGED <<normVars, toolCall, now, ticks, fileVars, cacheVars, catalogVars, backendVars,
                 calls, ghostVars, posts>>

(* DynamicMCPHost.refresh_tools: POST /refresh *)

\* line 307
StartRefresh(p) ==
  /\ CanStart(p)
  /\ calls' = [calls EXCEPT ![p] = @ + 1]
  /\ lv' = [lv EXCEPT ![p] = [NoLocals EXCEPT !.retDisc = "rt_refresh"]]
  /\ Goto(p, "disc_reset")
  /\ UNCHANGED <<normVars, toolCall, now, ticks, fileVars, cacheVars, catalogVars, backendVars,
                 resp, ghostVars, posts>>

\* line 308
RefreshToolsCache(p) ==
  /\ pc[p] = "rt_refresh"
  /\ lv' = [lv EXCEPT ![p].retRefresh = "rt_respond"]
  /\ Goto(p, "load_exists")
  /\ UNCHANGED <<normVars, toolCall, now, ticks, fileVars, cacheVars, catalogVars, backendVars,
                 resp, calls, ghostVars, posts>>

RECURSIVE SumLen(_, _)
SumLen(catalog, servers) ==
  IF servers = {} THEN 0
  ELSE LET s == CHOOSE x \in servers : TRUE
       IN Len(catalog[s].tools) + SumLen(catalog, servers \ {s})

\* lines 309-313
RefreshRespond(p) ==
  /\ pc[p] = "rt_respond"
  /\ Finish(p, Response(200, [status |-> S("success"),
                               message |-> S("Tools and metadata refreshed"),
                               tools_count |-> I(SumLen(available_tools,
                                                        DOMAIN available_tools))]))
  /\ UNCHANGED <<normVars, toolCall, now, ticks, fileVars, cacheVars, catalogVars, backendVars,
                 calls, ghostVars, posts>>

(* DynamicMCPHost.query_endpoint and process_query: POST /query *)

\* request bodies
Requests ==
  { D([query |-> T(<<W>>)]), D([query |-> T(<<WS>>)]), D(EmptyFn) }


\* what llm.invoke(messages).content can be
Replies ==
  {
    <<W>>,
    <<WS, W, WS>>,
    <<W, LB, KEY("seatCommand"), LB, RB, RB, W>>,
    <<LB, KEY("action"), ATOM(S("direct_response")), KEY("response"), ATOM(S("ok")), RB>>,
    <<LB, KEY("action"), ATOM(S("direct_response")), RB>>,
    <<LB, KEY("action"), ATOM(S("call_tool")), KEY("tool"), ATOM(S("x")), KEY("server"), ATOM(S("y")), KEY("args"), LB, RB, RB>>,
    <<LB, KEY("tool"), ATOM(S("move_track_forward")), KEY("args"), LB, KEY("current_value"), ATOM(I(50)), RB, RB>>,
    <<WS, LB, KEY("seatCommand"), LB, KEY("thermal"), LB, KEY("heatingLevel"), ATOM(I(3)), RB, RB, KEY("reasoning"), ATOM(S("cold")), RB>>,
    <<ATOM(I(5))>>,
    <<LS, ATOM(I(1)), RS>>,
    <<ATOM(None)>>,
    <<LB, KEY("foo"), ATOM(I(1)), RB>>
  }

\* what a server answers to POST /mcp/execute when it answers: a status code
\* and a body that is JSON (json) or not (json = None)
ExecAnswers ==
  { [code |-> 200, json |-> D([status |-> S("executed")])],
    [code |-> 400, json |-> D([error |-> S("Unknown tool")])],
    [code |-> 404, json |-> None] }

\* f"...: {x}"
Fmt(prefix, x) == [fmt |-> <<prefix, x>>]

\* lines 261-266
Failure(exc) ==
  Response(500, [status |-> S("error"), error |-> Fmt("Failed to process query", exc)])

Answered(p, r) == [r EXCEPT !.reply = lv[p].reply, !.sent = lv[p].sent]


\* lines 280-286
StartQuery(p, data) ==
  /\ CanStart(p)
  /\ calls' = [calls EXCEPT ![p] = @ + 1]
  /\ LET user_query == Strip(Get(data, "query", T(<< >>)).val.text)
     IN IF user_query = << >>
          THEN /\ resp' = [resp EXCEPT ![p] =
                    Response(400, [error |-> S("No query provided")])]
               /\ UNCHANGED <<pc, lv>>
          ELSE /\ lv' = [lv EXCEPT ![p] = [NoLocals EXCEPT !.retGcm = "pq_tools"]]
               /\ Goto(p, "gcm_check")
               /\ UNCHANGED resp
  /\ UNCHANGED <<normVars, toolCall, now, ticks, fileVars, cacheVars, catalogVars, backendVars,
                 ghostVars, posts>>

\* line 159: the iteration over available_tools.items() begins
ToolsBegin(p) ==
  /\ pc[p] = "pq_tools"
  /\ lv' = [lv EXCEPT ![p].itObj = catalogObj,
                      ![p].itSize = Cardinality(DOMAIN available_tools),
                      ![p].toolsSeen = available_tools]
  /\ Goto(p, "pq_tools_end")
  /\ UNCHANGED <<normVars, toolCall, now, ticks, fileVars, cacheVars, catalogVars, backendVars,
                 resp, calls, ghostVars, posts>>

\* lines 159-173: the iteration ends, or finds that the dict it walks has grown
ToolsEnd(p) ==
  /\ pc[p] = "pq_tools_end"
  /\ IF lv[p].itObj = catalogObj /\ lv[p].itSize # Cardinality(DOMAIN available_tools)
       THEN Finish(p, Answered(p, Failure("RuntimeError")))
       ELSE /\ Goto(p, "pq_llm")
            /\ UNCHANGED <<resp, lv>>
  /\ UNCHANGED <<normVars, toolCall, now, ticks, fileVars, cacheVars, catalogVars, backendVars,
                 calls, ghostVars, posts>>

\* process_query without the except clause of lines 214-219
InterpretParsedOnly(decision_text) ==
  LET object(decision, action) ==
        IF action.exc # "none"
          THEN [kind |-> "raise", exc |-> action.exc, decision |-> decision]
        ELSE IF action.val = S("direct_response")
          THEN [kind |-> "direct", text |-> Get(decision, "response", None).val,
                decision |-> decision]
        ELSE IF Contains("seatCommand", decision).val
          THEN [kind |-> "tool", server |-> "motor", tool |-> "seat_adjustment",
                args |-> Get(decision, "seatCommand", D(EmptyFn)).val,
                decision |-> decision]
        ELSE [kind |-> "invalid", decision |-> decision]
      loaded(parsed) ==
        IF parsed.exc # "none"
          THEN [kind |-> "raise", exc |-> parsed.exc, decision |-> None]
          ELSE object(parsed.val, Get(parsed.val, "action", None))
  IN loaded(JsonLoads(decision_text))

\* lines 212-259: what process_query does with decision_text before any call:
\* "direct", "tool", "invalid", or "raise"
Interpret(decision_text) ==
  LET object(decision, action) ==
        IF action.exc # "none"
          THEN [kind |-> "raise", exc |-> action.exc, decision |-> decision]
        ELSE IF action.val = S("direct_response")
          THEN [kind |-> "direct", text |-> Get(decision, "response", None).val,
                decision |-> decision]
        ELSE IF Contains("seatCommand", decision).val
          THEN [kind |-> "tool", server |-> "motor", tool |-> "seat_adjustment",
                args |-> Get(decision, "seatCommand", D(EmptyFn)).val,
                decision |-> decision]
        ELSE [kind |-> "invalid", decision |-> decision]
      loaded(parsed) ==
        IF parsed.exc # "none"
          THEN [kind |-> "direct", text |-> T(decision_text), decision |-> None]
          ELSE object(parsed.val, Get(parsed.val, "action", None))
  IN loaded(JsonLoads(decision_text))

\* lines 206-228: llm.invoke answers, and the reply is interpreted
Decide(p, content) ==
  /\ pc[p] = "pq_llm"
  /\ \E d \in {Interpret(Strip(content))} :
       CASE d.kind = "raise" ->
              Finish(p, [Failure(d.exc) EXCEPT !.reply = T(content)])
         [] d.kind = "tool" ->
              /\ lv' = [lv EXCEPT ![p].reply = T(content), ![p].out = "tool",
                                  ![p].decision = d.decision]
              /\ Goto(p, "smc_check")
              /\ UNCHANGED resp
         [] OTHER ->
              /\ lv' = [lv EXCEPT ![p].reply = T(content), ![p].out = d.kind,
                                  ![p].decision = d.decision,
                                  ![p].text = IF d.kind = "direct" THEN d.text ELSE None,
                                  ![p].retGcm = "pq_respond"]
              /\ Goto(p, "gcm_check")
              /\ UNCHANGED resp
  /\ UNCHANGED <<normVars, toolCall, now, ticks, fileVars, cacheVars, catalogVars, backendVars,
                 calls, ghostVars, posts>>

\* line 206: llm.invoke raises
DecideFails(p) ==
  /\ pc[p] = "pq_llm"
  /\ Finish(p, Answered(p, Failure("APIError")))
  /\ UNCHANGED <<normVars, toolCall, now, ticks, fileVars, cacheVars, catalogVars, backendVars,
                 calls, ghostVars, posts>>

(* DynamicMCPHost.send_mcp_command("motor", "seat_adjustment", args) *)

NotAvailable(server_name) == D([error |-> Fmt("Server not available", server_name)])

FailedToReach(server_name) == D([error |-> Fmt("Failed to reach server", server_name)])

\* whether some entry of the catalog lists the tool
Declares(catalog, tool_name) ==
  \E s \in DOMAIN catalog :
    \E i \in 1..Len(catalog[s].tools) : catalog[s].tools[i] = tool_name

\* lines 184-185
SendCheck(p) ==
  /\ pc[p] = "smc_check"
  /\ IF "motor" \notin DOMAIN available_tools
       THEN /\ lv' = [lv EXCEPT ![p].status = 400, ![p].toolResult = NotAvailable("motor")]
            /\ Goto(p, "pq_final")
       ELSE /\ Goto(p, "smc_url")
            /\ UNCHANGED lv
  /\ UNCHANGED <<normVars, toolCall, now, ticks, fileVars, cacheVars, catalogVars, backendVars,
                 resp, calls, ghostVars, posts>>

\* lines 187-188; lines 193-195 when the entry has gone meanwhile
SendUrl(p) ==
  /\ pc[p] = "smc_url"
  /\ IF "motor" \in DOMAIN available_tools
       THEN /\ lv' = [lv EXCEPT ![p].url = available_tools["motor"].url]
            /\ Goto(p, "smc_post")
       ELSE /\ lv' = [lv EXCEPT ![p].status = 500, ![p].toolResult = FailedToReach("motor")]
            /\ Goto(p, "pq_final")
  /\ UNCHANGED <<normVars, toolCall, now, ticks, fileVars, cacheVars, catalogVars, backendVars,
                 resp, calls, ghostVars, posts>>

\* lines 191-192 without the except clause of lines 193-195
SendPostUncaught(p, answer) ==
  /\ pc[p] = "smc_post"
  /\ backend["motor"] # "silent"
  /\ LET request == [url |-> lv[p].url, tool |-> "seat_adjustment",
                     args |-> Get(lv[p].decision, "seatCommand", D(EmptyFn)).val,
                     declared |-> Declares(available_tools, "seat_adjustment")]
     IN /\ posts' = Append(posts, request)
        /\ lv' = [lv EXCEPT
             ![p].sent = Append(@, request),
             ![p].status = IF backend["motor"] = "down" \/ answer.json = None
                             THEN 0 ELSE answer.code,
             ![p].toolResult = IF backend["motor"] = "down" \/ answer.json = None
                                 THEN None ELSE answer.json]
  /\ Goto(p, IF backend["motor"] = "down" \/ answer.json = None
               THEN "raised" ELSE "pq_final")
  /\ UNCHANGED <<normVars, toolCall, now, ticks, fileVars, cacheVars, catalogVars, backendVars,
                 resp, calls, ghostVars>>

\* lines 191-195 if a request that failed were sent once more
SendPostRetries(p, answer) ==
  /\ pc[p] = "smc_post"
  /\ backend["motor"] # "silent"
  /\ LET request == [url |-> lv[p].url, tool |-> "seat_adjustment",
                     args |-> Get(lv[p].decision, "seatCommand", D(EmptyFn)).val,
                     declared |-> Declares(available_tools, "seat_adjustment")]
         again(q) == IF backend["motor"] = "down" \/ answer.json = None
                       THEN Append(Append(q, request), request)
                       ELSE Append(q, request)
     IN /\ posts' = again(posts)
        /\ lv' = [lv EXCEPT
             ![p].sent = again(@),
             ![p].status = IF backend["motor"] = "down" \/ answer.json = None
                             THEN 500 ELSE answer.code,
             ![p].toolResult = IF backend["motor"] = "down" \/ answer.json = None
                                 THEN FailedToReach("motor") ELSE answer.json]
  /\ Goto(p, "pq_final")
  /\ UNCHANGED <<normVars, toolCall, now, ticks, fileVars, cacheVars, catalogVars, backendVars,
                 resp, calls, ghostVars>>

\* lines 191-195: the request goes out and the server answers, or does not
SendPost(p, answer) ==
  /\ pc[p] = "smc_post"
  /\ backend["motor"] # "silent"
  /\ LET request == [url |-> lv[p].url, tool |-> "seat_adjustment",
                     args |-> Get(lv[p].decision, "seatCommand", D(EmptyFn)).val,
                     declared |-> Declares(available_tools, "seat_adjustment")]
     IN /\ posts' = Append(posts, request)
        /\ lv' = [lv EXCEPT
             ![p].sent = Append(@, request),
             ![p].status = IF backend["motor"] = "down" \/ answer.json = None
                             THEN 500 ELSE answer.code,
             ![p].toolResult = IF backend["motor"] = "down" \/ answer.json = None
                                 THEN FailedToReach("motor") ELSE answer.json]
  /\ Goto(p, "pq_final")
  /\ UNCHANGED <<normVars, toolCall, now, ticks, fileVars, cacheVars, catalogVars, backendVars,
                 resp, calls, ghostVars>>

\* line 191: requests.post has no timeout; the request goes out to a server
\* that never answers, and the call does not return
SendPostWaits(p) ==
  /\ pc[p] = "smc_post"
  /\ backend["motor"] = "silent"
  /\ LET request == [url |-> lv[p].url, tool |-> "seat_adjustment",
                     args |-> Get(lv[p].decision, "seatCommand", D(EmptyFn)).val,
                     declared |-> Declares(available_tools, "seat_adjustment")]
     IN /\ posts' = Append(posts, request)
        /\ lv' = [lv EXCEPT ![p].sent = Append(@, request)]
  /\ Goto(p, "smc_wait")
  /\ UNCHANGED <<normVars, toolCall, now, ticks, fileVars, cacheVars, catalogVars, backendVars,
                 resp, calls, ghostVars>>

(* process_query after send_mcp_command *)

\* lines 235-240 and 248: generate_final_response answers, or there is none to ask for
Final(p) ==
  /\ pc[p] = "pq_final"
  /\ lv' = [lv EXCEPT
       ![p].out = IF lv[p].status = 200 THEN "tool_ok" ELSE "tool_failed",
       ![p].text = IF lv[p].status = 200 THEN [final |-> lv[p].toolResult] ELSE None,
       ![p].retGcm = "pq_respond"]
  /\ Goto(p, "gcm_check")
  /\ UNCHANGED <<normVars, toolCall, now, ticks, fileVars, cacheVars, catalogVars, backendVars,
                 resp, calls, ghostVars, posts>>

\* line 275: llm.invoke raises
FinalFails(p) ==
  /\ pc[p] = "pq_final"
  /\ lv[p].status = 200
  /\ Finish(p, Answered(p, Failure("APIError")))
  /\ UNCHANGED <<normVars, toolCall, now, ticks, fileVars, cacheVars, catalogVars, backendVars,
                 calls, ghostVars, posts>>

\* the return statements of lines 215-219, 222-226, 241-247, 249-253, 255-259
Outcome(out, text, status, toolResult, metadata) ==
  CASE out = "direct" ->
         Response(200, [status |-> S("success"), response |-> text,
                        metadata |-> metadata])
    [] out = "tool_ok" ->
         Response(200, [status |-> S("success"), response |-> text,
                        tool_used |-> S("motor.seat_adjustment"),
                        tool_result |-> toolResult, metadata |-> metadata])
    [] out = "tool_failed" ->
         Response(status, [status |-> S("error"),
                           error |-> Fmt("Tool execution failed", toolResult),
                           metadata |-> metadata])
    [] OTHER ->
         Response(400, [status |-> S("error"), error |-> S("Invalid action from LLM"),
                        metadata |-> metadata])

Respond(p) ==
  /\ pc[p] = "pq_respond"
  /\ Finish(p, Answered(p, Outcome(lv[p].out, lv[p].text, lv[p].status,
                                   lv[p].toolResult, lv[p].metadata)))
  /\ UNCHANGED <<normVars, toolCall, now, ticks, fileVars, cacheVars, catalogVars, backendVars,
                 calls, ghostVars, posts>>

ProcessQuery(p) ==
  \/ \E data \in Requests : StartQuery(p, data)
  \/ ToolsBegin(p) \/ ToolsEnd(p)
  \/ \E content \in Replies : Decide(p, content)
  \/ DecideFails(p)
  \/ Final(p) \/ FinalFails(p)
  \/ Respond(p)

SendMcpCommand(p) ==
  \/ SendCheck(p) \/ SendUrl(p)
  \/ \E answer \in ExecAnswers : SendPost(p, answer)
  \/ SendPostWaits(p)

RefreshTools(p) == StartRefresh(p) \/ RefreshToolsCache(p) \/ RefreshRespond(p)

(* The environment *)

\* the clock moves on, by one unit or by the freshness deadline
Tick(d) ==
  /\ ticks < MaxTicks
  /\ ticks' = ticks + 1
  /\ now' = now + d
  /\ reloadAttempts' = 0
  /\ reloadFailures' = 0
  /\ UNCHANGED <<normVars, toolCall, fileVars, cacheVars, catalogVars, backendVars,
                 threadVars, posts>>

\* another process rewrites the telemetry file
FileWrite(content) ==
  /\ fileWrites < MaxFileWrites
  /\ fileWrites' = fileWrites + 1
  /\ fileExists' = TRUE
  /\ fileContent' = content
  /\ fileMtime' = fileMtime + 1
  /\ UNCHANGED <<normVars, toolCall, now, ticks, cacheVars, catalogVars, backendVars, threadVars,
                 ghostVars, posts>>

\* the vehicle writes its next snapshot to the telemetry file
TelemetryUpdate(content) ==
  /\ fileWrites < MaxUpdates
  /\ fileExists
  /\ content # fileContent
  /\ fileWrites' = fileWrites + 1
  /\ fileContent' = content
  /\ fileMtime' = fileMtime + 1
  /\ UNCHANGED <<normVars, toolCall, now, ticks, fileExists, cacheVars, catalogVars, backendVars,
                 threadVars, ghostVars, posts>>

\* another process removes the telemetry file
FileDelete ==
  /\ fileWrites < MaxFileWrites
  /\ fileExists
  /\ fileWrites' = fileWrites + 1
  /\ fileExists' = FALSE
  /\ UNCHANGED <<normVars, toolCall, now, ticks, fileMtime, fileContent, cacheVars, catalogVars,
                 backendVars, threadVars, ghostVars, posts>>

\* an MCP server starts to answer differently
BackendChange(s, mode) ==
  /\ backendChanges < MaxBackendChanges
  /\ backend[s] # mode
  /\ backendChanges' = backendChanges + 1
  /\ backend' = [backend EXCEPT ![s] = mode]
  /\ UNCHANGED <<normVars, toolCall, now, ticks, fileVars, cacheVars, catalogVars, threadVars,
                 ghostVars, posts>>

Startup(p) == Initialize(p) \/ InitDiscover(p)

LoadLatestMetadata(p) ==
  \/ LoadExists(p) \/ LoadMtime(p) \/ LoadCmp(p) \/ LoadRead(p)
  \/ LoadStoreMetadata(p) \/ LoadStoreMtime(p) \/ LoadReturn(p)

RefreshMetadataCache(p) == RefreshStore(p) \/ RefreshStamp(p)

GetCurrentMetadata(p) == GcmCheck(p) \/ GcmTest(p) \/ GcmFormat(p)

DiscoverTools(p) == DiscoverReset(p) \/ DiscoverGet(p)

-----------------------------------------------------------------------------
(* Specifications *)

Init ==
  /\ NormInit
  /\ toolCall = [tool |-> "none", kwargs |-> EmptyFn, ret |-> None]
  /\ HostInit

\* the normalizer alone
SpecNorm == Init /\ [][NormNext]_vars

\* the motor MCP server executing tool calls
SpecTools == Init /\ [][ToolNext]_vars

\* the telemetry cache: workers serve GET /metadata while the file changes
CacheNext ==
  \/ \E p \in Threads :
       \/ Startup(p)
       \/ LoadLatestMetadata(p)
       \/ RefreshMetadataCache(p)
       \/ GetCurrentMetadata(p)
       \/ DiscoverTools(p)
       \/ StartMetadata(p)
       \/ MetadataRespond(p)
  \/ \E d \in {1, FreshnessDeadline} : Tick(d)
  \/ \E c \in FileContents : FileWrite(c)
  \/ FileDelete

SpecCache == Init /\ [][CacheNext]_vars

\* GET /metadata served by concurrent threads while the vehicle keeps writing
\* snapshots
ReloadNext ==
  \/ \E p \in Threads :
       \/ Startup(p)
       \/ LoadLatestMetadata(p)
       \/ RefreshMetadataCache(p)
       \/ GetCurrentMetadata(p)
       \/ DiscoverTools(p)
       \/ StartMetadata(p)
       \/ MetadataRespond(p)
  \/ \E d \in {1, FreshnessDeadline} : Tick(d)
  \/ \E c \in {Doc(SnapshotA), Doc(Snapshot("reclined", 60))} : TelemetryUpdate(c)

SpecReload == Init /\ [][ReloadNext]_vars

\* a step of thread p
ThreadStep(p) ==
  \/ Startup(p)
  \/ LoadLatestMetadata(p)
  \/ RefreshMetadataCache(p)
  \/ GetCurrentMetadata(p)
  \/ DiscoverTools(p)
  \/ ProcessQuery(p)
  \/ SendMcpCommand(p)
  \/ RefreshTools(p)

\* the host: workers serve POST /query and POST /refresh while the MCP servers
\* come and go
Next ==
  \/ \E p \in Threads : ThreadStep(p)
  \/ \E s \in ServerSet, mode \in BackendModes : BackendChange(s, mode)

Spec == Init /\ [][Next]_vars

\* a step of thread p when the only requests are POST /query
QueryStep(p) ==
  \/ Startup(p)
  \/ LoadLatestMetadata(p)
  \/ RefreshMetadataCache(p)
  \/ GetCurrentMetadata(p)
  \/ DiscoverTools(p)
  \/ ProcessQuery(p)
  \/ SendMcpCommand(p)

\* the threads at work when one request is served at a time
Serial == {"main", "w1"}

QueryNext ==
  \/ \E p \in Serial : QueryStep(p)
  \/ \E s \in ServerSet, mode \in BackendModes : BackendChange(s, mode)

\* the host serving POST /query only, one request at a time, when every thread
\* that can take a step takes one: the threads of app.run(threaded=True) are
\* scheduled by the operating system, and llm.invoke answers or raises
FairSpec == Init /\ [][QueryNext]_vars /\ \A p \in Serial : WF_vars(QueryStep(p))

-----------------------------------------------------------------------------
(* Properties of the normalizer, under SpecNorm *)

\* C1: process_llm_response never modifies DEFAULT_RESPONSE_STRUCTURE, and
\* what it returns depends on its argument only: it is what a call with the
\* default command as loaded returns.
C1_NormalizerIsPure ==
  /\ DEFAULT_RESPONSE_STRUCTURE = DefaultLiteral
  /\ normOutcome = "returned" =>
       normRet = process_llm_response(normArg, DefaultLiteral).ret

\* fragments without a recognized section, or whose recognized sections hold
\* zeros and false only
InactiveResponses ==
  { Cmd([thermal |-> D([heatingLevel |-> I(0), ventilationLevel |-> I(0)])]),
    Cmd(EmptyFn),
    Cmd([foo |-> I(1)]),
    None,
    D([answer |-> S("hello"), seatCommand |-> D([seatbelt |-> D([percentage |-> I(0)])])]),
    T(<<W>>),
    T(<<RB, W, LB>>),
    T(<<LB, W, RB>>),
    T(<<LB, KEY("thermal"), LB, KEY("heatingLevel"), ATOM(I(3)), RB, RB>>) }

\* C2: for a fragment without a recognized section, or whose recognized
\* sections all carry inactive values, process_llm_response returns the
\* all-neutral command.
C2_InactiveGivesNeutral ==
  (normOutcome = "returned" /\ normArg \in InactiveResponses) => normRet = DefaultLiteral

\* C3: process_llm_response never raises, and what it returns has seatCommand
\* with vibe, pneumatic, thermal, motors and seatbelt.
C3_NormalizerIsTotal ==
  /\ normOutcome # "raised"
  /\ normOutcome = "returned" =>
       /\ IsDict(normRet)
       /\ "seatCommand" \in DOMAIN normRet.dict
       /\ IsDict(normRet.dict["seatCommand"])
       /\ {"vibe", "pneumatic", "thermal", "motors", "seatbelt"}
            \subseteq DOMAIN normRet.dict["seatCommand"].dict

\* a legacy field made handle_legacy_fields raise KeyError, and the call returned
C3_Witness ==
  /\ normOutcome = "returned"
  /\ normArg = Cmd([ventilation |-> B(TRUE)])
  /\ normExc = "KeyError"

-----------------------------------------------------------------------------
(* Properties of the live-state cache, under SpecCache *)

\* C4: when get_current_metadata finds the cache stale and the reload of the
\* telemetry file fails, the snapshot cached before is kept and its formatted
\* view is returned (no other request running).
C4_StaleSnapshotIsServed ==
  \A p \in Workers :
    ( /\ pc[p] = "md_respond"
      /\ lv[p].stale
      /\ lv[p].loadFailed
      /\ Truthy(lv[p].atEntry)
      /\ \A q \in Workers \ {p} : calls[q] = 0 )
    => /\ cached_metadata = lv[p].atEntry
       /\ lv[p].metadata = format_metadata_for_prompt(lv[p].atEntry)

\* C5: the get_current_metadata calls made at one instant past the freshness
\* deadline start one reload between them (the telemetry file being left
\* alone, so that no reload fails).
C5_OneReloadPerInstant ==
  (fileWrites = 0 /\ reloadFailures = 0) => reloadAttempts <= 1

-----------------------------------------------------------------------------
(* Properties of the host, under Spec *)

\* C6: while every server keeps answering discovery with its tools, no query
\* finds the motor server missing from the catalog: neither
\* create_tools_description nor send_mcp_command.
C6_CatalogNeverLacksLiveBackend ==
  (backendChanges = 0 /\ backend["motor"] = "ok" /\ pc["main"] = "serving") =>
    \A p \in Workers :
      /\ pc[p] = "pq_tools_end" => "motor" \in DOMAIN lv[p].toolsSeen
      /\ lv[p].toolResult # NotAvailable("motor")

\* C7: no POST goes out for a tool that no entry of the catalog declares.
C7_UndeclaredToolIsNotPosted ==
  \A i \in 1..Len(posts) : posts[i].declared

\* C8: a reply that is a JSON object with action "call_tool" and a tool is
\* dispatched as an invocation of that tool with its args, and is not
\* answered as an invalid action.
C8_CallToolEnvelopeIsDispatched ==
  \A p \in Workers :
    (resp[p] # None /\ resp[p].reply # None) =>
      LET parsed == JsonLoads(Strip(resp[p].reply.text))
      IN ( /\ parsed.exc = "none"
           /\ IsDict(parsed.val)
           /\ {"action", "tool"} \subseteq DOMAIN parsed.val.dict
           /\ parsed.val.dict["action"] = S("call_tool") )
         => /\ Len(resp[p].sent) = 1
            /\ S(resp[p].sent[1].tool) = parsed.val.dict["tool"]
            /\ resp[p].sent[1].args = Get(parsed.val, "args", D(EmptyFn)).val

\* C9: a reply that is not JSON is answered 200 "success" with the reply,
\* less its leading and trailing whitespace, as the response; a JSON object
\* whose action is "direct_response" is answered 200 "success" with its
\* response; neither makes a POST.
C9_DirectAnswers ==
  \A p \in Workers :
    (resp[p] # None /\ resp[p].reply # None) =>
      LET text == Strip(resp[p].reply.text)
          parsed == JsonLoads(text)
          direct(response) ==
            /\ resp[p].code = 200
            /\ resp[p].sent = << >>
            /\ {"status", "response"} \subseteq DOMAIN resp[p].body
            /\ resp[p].body.status = S("success")
            /\ resp[p].body.response = response
      IN /\ parsed.exc # "none" => direct(T(text))
         /\ ( /\ parsed.exc = "none"
              /\ IsDict(parsed.val)
              /\ "action" \in DOMAIN parsed.val.dict
              /\ parsed.val.dict["action"] = S("direct_response") )
            => direct(Get(parsed.val, "response", None).val)

\* one worker answered padded prose and the other a direct_response object
C9_Witness ==
  /\ resp["w1"] # None
  /\ resp["w1"].reply = T(<<WS, W, WS>>)
  /\ resp["w1"].code = 200
  /\ resp["w2"] # None
  /\ resp["w2"].reply = T(<<LB, KEY("action"), ATOM(S("direct_response")), KEY("response"), ATOM(S("ok")), RB>>)
  /\ resp["w2"].code = 200

\* C9 as stated: the reply that is not JSON is the response verbatim.
C9_ReplyReturnedVerbatim ==
  \A p \in Workers :
    (resp[p] # None /\ resp[p].reply # None) =>
      ( JsonLoads(Strip(resp[p].reply.text)).exc # "none" =>
          /\ resp[p].code = 200
          /\ "response" \in DOMAIN resp[p].body
          /\ resp[p].body.response = resp[p].reply )

\* C10: a reply that is JSON but neither a direct_response object nor an
\* object naming a capability (seatCommand or tool) is answered 400 "Invalid
\* action from LLM", without a POST.
C10_OtherRepliesAreInvalid ==
  \A p \in Workers :
    (resp[p] # None /\ resp[p].reply # None) =>
      LET parsed == JsonLoads(Strip(resp[p].reply.text))
          keys == IF IsDict(parsed.val) THEN DOMAIN parsed.val.dict ELSE {}
          isDirect == "action" \in keys /\ parsed.val.dict["action"] = S("direct_response")
          namesCapability == "seatCommand" \in keys \/ "tool" \in keys
      IN (parsed.exc = "none" /\ ~isDirect /\ ~namesCapability)
         => /\ resp[p].code = 400
            /\ resp[p].sent = << >>
            /\ "error" \in DOMAIN resp[p].body
            /\ resp[p].body.error = S("Invalid action from LLM")

\* C11: send_mcp_command always returns a (status, body) pair: 400 "not
\* available" without a POST, 500 "failed to reach" when the entry has gone,
\* the server is down or its answer is not JSON, and otherwise the server's
\* own status code and JSON body; it returns nothing else (it may wait for a
\* server that does not answer).
C11_SendReturnsPair ==
  [][\A p \in Workers :
       (pc[p] \in {"smc_check", "smc_url", "smc_post"} /\ pc'[p] # pc[p]) =>
         \/ pc'[p] \in {"smc_url", "smc_post"} /\ posts' = posts
         \/ pc'[p] = "smc_wait" /\ backend["motor"] = "silent"
         \/ /\ pc'[p] = "pq_final"
            /\ \/ /\ posts' = posts
                  /\ lv'[p].status = 400
                  /\ lv'[p].toolResult = NotAvailable("motor")
               \/ /\ lv'[p].status = 500
                  /\ lv'[p].toolResult = FailedToReach("motor")
               \/ /\ Len(posts') = Len(posts) + 1
                  /\ backend["motor"] \notin {"down", "silent"}
                  /\ \E a \in ExecAnswers :
                       /\ a.json # None
                       /\ lv'[p].status = a.code
                       /\ lv'[p].toolResult = a.json]_vars

\* a POST went out and came back as 500 "failed to reach"
C11_Witness ==
  \E p \in Workers :
    /\ pc[p] = "pq_final"
    /\ lv[p].sent # << >>
    /\ lv[p].status = 500
    /\ lv[p].toolResult = FailedToReach("motor")

\* C12: no operation blocks for ever: a backend that never answers is turned
\* into a dispatch failure by a timeout, so every request a worker has taken
\* is eventually answered and the worker is idle again.
C12_EveryQueryReturns ==
  \A p \in Workers : (pc[p] # "idle") ~> (pc[p] = "idle")

\* every number held anywhere in value x is within [0,100]
RECURSIVE NumbersWithin(_)
NumbersWithin(x) ==
  CASE Is(x, "int")  -> 0 <= x.int /\ x.int <= 100
    [] Is(x, "dict") -> \A k \in DOMAIN x.dict : NumbersWithin(x.dict[k])
    [] OTHER -> TRUE

\* C13: in every command process_llm_response returns, every percentage and
\* every other numeric level is within [0,100], whatever the fragment carries.
C13_LevelsWithinRange ==
  normOutcome = "returned" => NumbersWithin(normRet)

\* value x has the shape of the default value d: a dict with exactly the keys
\* of d, each of the shape of d's, or a value that is not a dict where d is none
RECURSIVE SameShape(_, _)
SameShape(x, d) ==
  IF IsDict(d)
    THEN /\ IsDict(x)
         /\ DOMAIN x.dict = DOMAIN d.dict
         /\ \A k \in DOMAIN d.dict : SameShape(x.dict[k], d.dict[k])
    ELSE ~IsDict(x)

\* C14: every command process_llm_response returns has the shape of the
\* default command at every level: every field of the default is there, and
\* no key the default does not have.
C14_CanonicalShape ==
  normOutcome = "returned" => SameShape(normRet, DefaultLiteral)

\* C15: the boolean flags of the older fragment shape are translated: from
\* ventilation = true the command returned has thermal.ventilationLevel 3,
\* from vibe = true a vibe action above 0, and from massage = true
\* pneumatic.massage.is_active true.
C15_LegacyFlagsTranslated ==
  normOutcome = "returned" =>
    /\ normArg = Cmd([ventilation |-> B(TRUE)]) =>
         normRet.dict["seatCommand"].dict["thermal"].dict["ventilationLevel"]
           = I(LegacyVentilationLevel)
    /\ normArg = Cmd([vibe |-> B(TRUE)]) =>
         normRet.dict["seatCommand"].dict["vibe"].dict["action"] = I(LegacyVibeAction)
    /\ normArg = Cmd([massage |-> B(TRUE)]) =>
         normRet.dict["seatCommand"].dict["pneumatic"].dict["massage"].dict["is_active"]
           = B(TRUE)

\* C16: for the fragment whose motors section names Track only, with
\* percentage 40, process_llm_response returns a command where Track has
\* percentage 40 and its other fields as in the default, and every other motor
\* is at its neutral default.
C16_OnlyTrackMoves ==
  (normOutcome = "returned"
     /\ normArg = Cmd([motors |-> D([Track |-> D([percentage |-> I(40)])])])) =>
    \E motors \in {normRet.dict["seatCommand"].dict["motors"].dict} :
      /\ motors["Track"] =
           D([percentage |-> I(40), type |-> S("relative"), direction |-> S("neutral")])
      /\ \A name \in {"Backrest", "Height", "Tilt", "UBA", "Headrest", "CLA"} :
           motors[name] = NeutralMotor

\* C17: when the command a call of process_llm_response returned is handed to
\* process_llm_response again, the call returns a command equal to it.
C17_NormalizeIsIdempotent ==
  [][(normOutcome = "returned" /\ normArg' = normRet) =>
       (normOutcome' = "returned" /\ normRet' = normRet)]_vars

\* a command with a motor moved and a lumbar entry set was normalized again
C17_Witness ==
  /\ normOutcome = "returned"
  /\ normArg = normRet
  /\ normRet.dict["seatCommand"].dict["motors"].dict["Track"].dict["percentage"] = I(40)
  /\ normRet.dict["seatCommand"].dict["pneumatic"].dict["adjustement"].dict["lumbar"]
       = D([percentage |-> I(30)])

\* the number section holds under key k, 0 when there is none
Level(section, k) ==
  IF IsDict(section) /\ k \in DOMAIN section.dict /\ Is(section.dict[k], "int")
    THEN section.dict[k].int
    ELSE 0

\* the predicate that makes a section of a fragment active
SectionPredicate(name, section) ==
  CASE name = "massage" ->
         "is_active" \in DOMAIN section.dict /\ section.dict["is_active"] = B(TRUE)
    [] name = "thermal" ->
         Level(section, "heatingLevel") > 0 \/ Level(section, "ventilationLevel") > 0
    [] name = "vibe" -> Level(section, "action") > 0
    [] name = "adjustement" ->
         \E part \in {"lumbar", "neckrest"} \cap DOMAIN section.dict :
           Level(section.dict[part], "percentage") > 0
    [] name = "motors" ->
         \E motor \in DOMAIN section.dict : Level(section.dict[motor], "percentage") > 0
    [] name = "seatbelt" -> Level(section, "percentage") > 0

\* the default section dflt with the entries of section written over it
Overwritten(dflt, section) ==
  D([k \in DOMAIN dflt.dict \cup DOMAIN section.dict |->
       IF k \in DOMAIN section.dict THEN section.dict[k] ELSE dflt.dict[k]])

\* what the claim lets a section of the result be, given the fragment's section
SectionExpected(name, dflt, section) ==
  IF SectionPredicate(name, section) THEN Overwritten(dflt, section) ELSE dflt

\* C18: a section of the fragment overwrites the defaults if and only if its
\* predicate holds: where it holds the section of the result is the default
\* with the fragment's entries written over it (for motors, motor by motor),
\* and where it does not the section of the result is the neutral default.
C18_SectionsOverwriteIffActive ==
  (normOutcome = "returned" /\ IsDict(normArg)
     /\ "seatCommand" \in DOMAIN normArg.dict
     /\ IsDict(normArg.dict["seatCommand"])) =>
    \E f \in {normArg.dict["seatCommand"].dict},
       r \in {normRet.dict["seatCommand"].dict},
       d \in {DefaultLiteral.dict["seatCommand"].dict} :
      /\ \A name \in {"thermal", "vibe", "seatbelt"} \cap DOMAIN f :
           IsDict(f[name]) => r[name] = SectionExpected(name, d[name], f[name])
      /\ ("pneumatic" \in DOMAIN f /\ IsDict(f["pneumatic"])) =>
           \A name \in {"massage", "adjustement"} \cap DOMAIN f["pneumatic"].dict :
             IsDict(f["pneumatic"].dict[name]) =>
               r["pneumatic"].dict[name] =
                 SectionExpected(name, d["pneumatic"].dict[name], f["pneumatic"].dict[name])
      /\ ("motors" \in DOMAIN f /\ IsDict(f["motors"])) =>
           \A motor \in DOMAIN f["motors"].dict \cap DOMAIN d["motors"].dict :
             IsDict(f["motors"].dict[motor]) =>
               r["motors"].dict[motor] =
                 IF SectionPredicate("motors", f["motors"])
                   THEN Overwritten(d["motors"].dict[motor], f["motors"].dict[motor])
                   ELSE d["motors"].dict[motor]

\* C19: when a pass of discover_tools completes, a server whose request failed
\* in that pass has no entry in the catalog, and a server whose request
\* succeeded has an entry with exactly the tools it returned.
C19_CatalogMatchesPass ==
  [][\A p \in Threads :
       (pc[p] = "disc_get" /\ pc'[p] # "disc_get") =>
         \A s \in ServerSet :
           IF lv'[p].answers[s].ok
             THEN /\ s \in DOMAIN available_tools'
                  /\ available_tools'[s].tools = lv'[p].answers[s].tools
             ELSE s \notin DOMAIN available_tools']_vars

\* C20: the catalog is refreshed on read: when a query looks the motor server
\* up in the catalog and does not find it while the server answers discovery,
\* a refresh follows, so the server gets its entry (unless it stops answering).
C20_QueryRefreshesCatalog ==
  \A p \in Workers :
    (pc[p] = "smc_check" /\ pc["main"] = "serving" /\ backend["motor"] = "ok"
       /\ "motor" \notin DOMAIN available_tools)
      ~> ("motor" \in DOMAIN available_tools \/ backend["motor"] # "ok")

-----------------------------------------------------------------------------
(* Further properties of the live-state cache, under SpecCache *)

\* C21: a get_current_metadata call made more than 5 time-units after the
\* last successful refresh attempts a reload before it produces its view: its
\* first step goes into load_latest_metadata, with nothing returned yet, and
\* comes back to the test of line 151 only from there.
C21_StaleCallReloadsFirst ==
  [][\A p \in Threads :
       (pc[p] = "gcm_check" /\ pc'[p] # "gcm_check"
          /\ now - last_metadata_update > FreshnessDeadline) =>
         /\ pc'[p] = "load_exists"
         /\ lv'[p].retRefresh = "gcm_test"
         /\ lv'[p].metadata = lv[p].metadata
         /\ reloadAttempts' = reloadAttempts + 1]_vars

\* a call made 6 time-units after the last successful refresh has reloaded and
\* has its view
C21_Witness ==
  \E p \in Workers :
    /\ pc[p] = "md_respond"
    /\ lv[p].stale
    /\ reloadAttempts > 0
    /\ last_metadata_update > Epoch
    /\ lv[p].metadata # None

\* C22: when load_latest_metadata finds the file's modification time equal to
\* last_modified_time, it does not read the file, leaves last_metadata and
\* last_modified_time as they are, and returns last_metadata (an empty dict
\* when that is empty).
C22_UnchangedFileIsNotReloaded ==
  [][\A p \in Threads :
       /\ (pc[p] = "load_cmp" /\ pc'[p] # "load_cmp"
             /\ lv[p].mtime = last_modified_time) =>
            /\ pc'[p] = "load_ret"
            /\ lv'[p].parsed = lv[p].parsed
            /\ last_metadata' = last_metadata
            /\ last_modified_time' = last_modified_time
       /\ (pc[p] = "load_ret" /\ pc'[p] # "load_ret") =>
            /\ lv'[p].loaded = IF Truthy(last_metadata) THEN last_metadata ELSE D(EmptyFn)
            /\ last_metadata' = last_metadata
            /\ last_modified_time' = last_modified_time]_vars

\* a worker's load found the modification time unchanged, read nothing and
\* returned the snapshot loaded before
C22_Witness ==
  \E p \in Workers :
    /\ pc[p] = "refresh_store"
    /\ lv[p].mtime = last_modified_time
    /\ lv[p].parsed = None
    /\ ~lv[p].loadFailed
    /\ Truthy(last_metadata)
    /\ lv[p].loaded = last_metadata

-----------------------------------------------------------------------------
(* The live-state cache under concurrent reloads, under SpecReload *)

\* C29: whenever no load_latest_metadata call is in progress and
\* last_modified_time is the modification time the telemetry file has now,
\* last_metadata is what the file holds now.
C29_CacheMatchesRecordedMtime ==
  ( /\ \A p \in Threads :
         pc[p] \notin {"load_exists", "load_mtime", "load_cmp", "load_read",
                       "load_store_md", "load_store_mt", "load_ret"}
    /\ fileExists
    /\ last_modified_time = fileMtime )
  => last_metadata = YamlSafeLoad(fileContent).val

-----------------------------------------------------------------------------
(* Further properties of the host, under Spec *)

\* C23: handling one query sends at most one POST, and a failed one is not
\* sent again: none when the reply is a direct answer, invalid or not a JSON
\* object; when the reply is an object with seatCommand (and no
\* direct_response action), one POST to the motor server for seat_adjustment
\* with the seatCommand value as args, or none when the motor server has no
\* entry in the catalog, the query then being answered 400 "not available"
\* (500 "failed to reach" when the entry goes between the test and the lookup).
C23_AtMostOnePost ==
  /\ \A p \in Workers : Len(lv[p].sent) <= 1
  /\ \A p \in Workers :
       (resp[p] # None /\ resp[p].reply # None) =>
         LET parsed == JsonLoads(Strip(resp[p].reply.text))
             keys == IF parsed.exc = "none" /\ IsDict(parsed.val)
                       THEN DOMAIN parsed.val.dict ELSE {}
             isDirect == "action" \in keys
                           /\ parsed.val.dict["action"] = S("direct_response")
             hasCommand == "seatCommand" \in keys /\ ~isDirect
             refused(code, result) ==
               /\ resp[p].sent = << >>
               /\ resp[p].code = code
               /\ "error" \in DOMAIN resp[p].body
               /\ resp[p].body.error = Fmt("Tool execution failed", result)
         IN /\ ~hasCommand => resp[p].sent = << >>
            /\ hasCommand =>
                 \/ /\ Len(resp[p].sent) = 1
                    /\ resp[p].sent[1].url = <<ServerUrl("motor"), "/mcp/execute">>
                    /\ resp[p].sent[1].tool = "seat_adjustment"
                    /\ resp[p].sent[1].args = parsed.val.dict["seatCommand"]
                 \/ refused(400, NotAvailable("motor"))
                 \/ refused(500, FailedToReach("motor"))

\* a query whose one POST failed was answered 500 without another POST
C23_Witness ==
  \E p \in Workers :
    /\ resp[p] # None
    /\ resp[p].code = 500
    /\ Len(resp[p].sent) = 1
    /\ "error" \in DOMAIN resp[p].body
    /\ resp[p].body.error = Fmt("Tool execution failed", FailedToReach("motor"))

\* C23 as stated: a decision that carries seatCommand makes exactly one POST.
C23_CommandPostsExactlyOnce ==
  \A p \in Workers :
    (resp[p] # None /\ resp[p].reply # None) =>
      LET parsed == JsonLoads(Strip(resp[p].reply.text))
          keys == IF parsed.exc = "none" /\ IsDict(parsed.val)
                    THEN DOMAIN parsed.val.dict ELSE {}
          isDirect == "action" \in keys /\ parsed.val.dict["action"] = S("direct_response")
      IN ("seatCommand" \in keys /\ ~isDirect) => Len(resp[p].sent) = 1

\* C27: when a pass of discover_tools completes, no tool name is in the
\* catalog under two servers, unless that pass recorded a discovery error for
\* one of the two.
C27_NoUnflaggedDuplicate ==
  [][\A p \in Threads :
       (pc[p] = "disc_get" /\ pc'[p] # "disc_get") =>
         \A s, t \in DOMAIN available_tools' :
           LET names(k) == {available_tools'[k].tools[i] :
                              i \in 1..Len(available_tools'[k].tools)}
           IN (s # t /\ names(s) \cap names(t) # {}) =>
                (~lv'[p].answers[s].ok \/ ~lv'[p].answers[t].ok)]_vars

-----------------------------------------------------------------------------
(* Properties of the query endpoint, under FairSpec *)

\* C24: every response to POST /query has status, metadata and exactly one of
\* response and error, and it has tool_used and tool_result exactly when a
\* POST was made for the query.
C24_ResponseShape ==
  \A p \in Workers :
    resp[p] # None =>
      \E keys \in {DOMAIN resp[p].body} :
        /\ {"status", "metadata"} \subseteq keys
        /\ ("response" \in keys) # ("error" \in keys)
        /\ IF resp[p].sent # << >>
             THEN {"tool_used", "tool_result"} \subseteq keys
             ELSE {"tool_used", "tool_result"} \cap keys = {}

\* C28: the response to a query for which a tool was invoked on the motor
\* server has response_type "raw" and names in tool_used the motor tool that
\* was invoked, one of the tools the motor server declares.
C28_ToolResponseNamesTool ==
  \A p \in Workers :
    (resp[p] # None /\ resp[p].sent # << >>) =>
      \E body \in {resp[p].body} :
        /\ "response_type" \in DOMAIN body
        /\ body.response_type = S("raw")
        /\ "tool_used" \in DOMAIN body
        /\ \E i \in 1..Len(DeclaredTools("motor")) :
              body.tool_used = S(DeclaredTools("motor")[i])

-----------------------------------------------------------------------------
(* Properties of the motor tools, under SpecTools *)

\* C25: an individual motor tool called without new_value and with a current
\* value c in 0..100 returns min(100, c + 10) when it is a forward or up tool
\* and max(0, c - 10) when it is a backward or down tool, and reports step 10,
\* whatever step was passed.
C25_FixedStepMoves ==
  LET up == {"move_track_forward", "move_height_up", "move_backrest_forward",
             "move_seattilt_up", "move_uba_forward", "move_headrest_forward"}
      down == {"move_track_backward", "move_height_down", "move_backrest_backward",
               "move_seattilt_down", "move_uba_backward", "move_headrest_backward"}
      kw == toolCall.kwargs
      c == kw.current_value.int
      ret == toolCall.ret.dict
  IN /\ toolCall.tool \in up \cup down
     /\ "new_value" \in DOMAIN kw => Is(kw.new_value, "none")
     /\ c \in 0..100
     => /\ toolCall.tool \in up =>
             ret.new_value = I(IF c + 10 > 100 THEN 100 ELSE c + 10)
        /\ toolCall.tool \in down =>
             ret.new_value = I(IF c - 10 < 0 THEN 0 ELSE c - 10)
        /\ ret.step = I(10)

\* C26: a track move that asks for the whole remaining distance, that is a
\* call without new_value from a current value c in 0..100 whose step is
\* 100 - c forward or c backward (30 and 70 from 70), moves by that distance:
\* the new value is the bound, 100 forward and 0 backward, the reported step
\* is the distance, and the new value is within 0..100.
C26_MoveFully ==
  LET kw == toolCall.kwargs
      c == kw.current_value.int
      ret == toolCall.ret.dict
      distance == IF toolCall.tool = "move_track_forward" THEN 100 - c ELSE c
      bound == IF toolCall.tool = "move_track_forward" THEN 100 ELSE 0
  IN /\ toolCall.tool \in {"move_track_forward", "move_track_backward"}
     /\ Is(kw.new_value, "none")
     /\ c \in 0..100
     /\ kw.step = I(distance)
     => /\ ret.new_value = I(bound)
        /\ ret.step = I(distance)
        /\ ret.new_value.int \in 0..100

\* C30: whatever integers a tool of the motor server is called with, a step
\* or a new_value included, every level and position it returns as the new
\* setting is within 0..100.
C30_ReturnedSettingsInRange ==
  LET settings(ret) ==
        CASE "motors" \in DOMAIN ret -> {ret.motors.dict[k] : k \in DOMAIN ret.motors.dict}
          [] "new_value" \in DOMAIN ret -> {ret.new_value}
          [] "heatingLevel" \in DOMAIN ret -> {ret.heatingLevel}
          [] "ventilationLevel" \in DOMAIN ret -> {ret.ventilationLevel}
  IN toolCall.tool # "none" =>
       /\ settings(toolCall.ret.dict) # {}
       /\ \A v \in settings(toolCall.ret.dict) : v.int \in 0..100

\* a target above the range was passed and the position returned is 100
C30_Witness ==
  /\ toolCall.tool = "move_height_up"
  /\ toolCall.kwargs.new_value = I(130)
  /\ toolCall.ret.dict.new_value = I(100)

====
